---------------------------- MODULE Spec2Model ----------------------------
(***************************************************************************)
(* Model of the routing backend: the TSP solvers (app/core/tsp_*.py), the   *)
(* cost matrix and path oracle (app/core/distance_matrix.py), the points   *)
(* loader and snapper (app/core/point_snapper.py) and the request handlers *)
(* with their in-memory session (app/api/*.py).                            *)
(*                                                                         *)
(* Conventions                                                             *)
(*   - a Python list is a TLA+ sequence; Python position k is TLA+         *)
(*     position k + 1; city indices are 0 .. n-1 as in the source.         *)
(*   - a distance matrix is a function D with D[i][j] for i, j \in 0..n-1. *)
(*   - float('inf') / np.inf is the value INF, with saturating addition.   *)
(*   - None is NoCity (for a city) and NoTour (for a tour).                *)
(*   - a raised exception is a result record whose status names the error  *)
(*     kind and whose tour is empty.                                       *)
(***************************************************************************)
EXTENDS Integers, Sequences, FiniteSets, TLC

VARIABLES
    distance_matrix,   \* the n x n matrix handed to the solvers
    point_ids,         \* the list of n point identifiers
    bf,                \* outcome of solve_tsp_bruteforce on the input
    hk,                \* outcome of solve_tsp_heldkarp on the input
    gr,                \* outcome of solve_tsp_greedy_with_2opt on the input
    bf_stats,          \* get_tour_statistics of the tour in bf
    hk_stats,          \* get_tour_statistics of the tour in hk
    gr_stats,          \* get_tour_statistics of the tour in gr
    network_cache,     \* api/network.py _network_cache
    points_cache,      \* api/points.py _points_cache
    points_file,       \* the points file at hand (its parsed rows, once loaded)
    pending,           \* snap_points requests suspended at their await
    response,          \* what the last completed call returned or raised
    written_by,        \* history: the request that wrote each key of points_cache
    next_request       \* number of the next request

solver_vars == <<distance_matrix, point_ids, bf, hk, gr, bf_stats, hk_stats, gr_stats>>

session_vars == <<network_cache, points_cache, points_file, pending, response,
                  written_by, next_request>>

vars == <<distance_matrix, point_ids, bf, hk, gr, bf_stats, hk_stats, gr_stats,
          network_cache, points_cache, points_file, pending, response,
          written_by, next_request>>

---------------------------------------------------------------------------
(* Bounds of the model *)

\* largest number of points whose tours are computed in Spec
MaxN == 4
\* finite matrix entries range over 0 .. MaxCost
MaxCost == 2
\* number of independent weights an input matrix is generated from
NumWeights == 3
\* largest number of points in SpecCaps (the size guards only)
MaxPoints == 25

---------------------------------------------------------------------------
(* Values *)

\* float('inf'): larger than every finite sum the model can form
INF == 1000000

NoCity == -1

NoTour == <<>>

\* default of the max_iterations parameter
MAX_ITERATIONS == 1000

\* a + b on floats restricted to non-negative values and +inf
Plus(a, b) == IF a = INF \/ b = INF THEN INF ELSE a + b

\* np.any(np.isinf(distance_matrix))
any_isinf(D, n) == \E i \in 0..(n - 1) : \E j \in 0..(n - 1) : D[i][j] = INF

\* 1 << i
Shl(i) == 2 ^ i

\* mask & (1 << i), as a truth value
BitSet(mask, i) == (mask \div Shl(i)) % 2 = 1

\* mask ^ (1 << i)
XorBit(mask, i) == IF BitSet(mask, i) THEN mask - Shl(i) ELSE mask + Shl(i)

\* [point_ids[i] for i in tour]
ToIds(tour, ids) == [k \in 1..Len(tour) |-> ids[tour[k] + 1]]

\* {pid: idx for idx, pid in enumerate(point_ids)}[pid]: the last index wins
id_to_idx(ids, pid) ==
    (CHOOSE k \in 1..Len(ids) :
        /\ ids[k] = pid
        /\ \A m \in 1..Len(ids) : ids[m] = pid => m <= k) - 1

\* an exception of the given kind leaves the caller without a tour
Raise(kind) == [status |-> kind, tour |-> NoTour, length |-> 0]

---------------------------------------------------------------------------
(* tsp_bruteforce.py *)

RECURSIVE SumConsecutive(_, _, _)
\* for i in range(len(tour) - 1): total_length += D[tour[i]][tour[i + 1]]
SumConsecutive(tour, D, k) ==
    IF k >= Len(tour) THEN 0
    ELSE Plus(D[tour[k]][tour[k + 1]], SumConsecutive(tour, D, k + 1))

calculate_tour_length(tour, D) ==
    IF Len(tour) = 0 THEN 0
    ELSE IF Len(tour) = 1 THEN 0
    ELSE Plus(SumConsecutive(tour, D, 1), D[tour[Len(tour)]][tour[1]])

\* s without its k-th element
RemoveAt(s, k) == [m \in 1..(Len(s) - 1) |-> IF m < k THEN s[m] ELSE s[m + 1]]

RECURSIVE permutations(_)
RECURSIVE PermutationsFrom(_, _)
\* the permutations of s that begin with s[k], s[k+1], ... in that order
PermutationsFrom(s, k) ==
    IF k > Len(s) THEN <<>>
    ELSE LET rest == permutations(RemoveAt(s, k))
         IN  [m \in 1..Len(rest) |-> <<s[k]>> \o rest[m]] \o PermutationsFrom(s, k + 1)

\* itertools.permutations(s): all orderings, in lexicographic order of position
permutations(s) == IF Len(s) = 0 THEN << <<>> >> ELSE PermutationsFrom(s, 1)

RECURSIVE bruteforce_loop_short(_, _, _, _)
\* bruteforce_loop leaving the last permutation out
bruteforce_loop_short(perms, k, D, st) ==
    IF k >= Len(perms) THEN st
    ELSE LET tour   == <<0>> \o perms[k]
             length == calculate_tour_length(tour, D)
             better == length < st.best_length
         IN  bruteforce_loop_short(perms, k + 1, D,
                 [best_tour   |-> IF better THEN tour ELSE st.best_tour,
                  best_length |-> IF better THEN length ELSE st.best_length,
                  permutations_checked |-> st.permutations_checked + 1])

RECURSIVE bruteforce_loop_counting_best(_, _, _, _)
\* bruteforce_loop with the counter advanced only when the best tour changes
bruteforce_loop_counting_best(perms, k, D, st) ==
    IF k > Len(perms) THEN st
    ELSE LET tour   == <<0>> \o perms[k]
             length == calculate_tour_length(tour, D)
             better == length < st.best_length
         IN  bruteforce_loop_counting_best(perms, k + 1, D,
                 [best_tour   |-> IF better THEN tour ELSE st.best_tour,
                  best_length |-> IF better THEN length ELSE st.best_length,
                  permutations_checked |-> IF better THEN st.permutations_checked + 1
                                           ELSE st.permutations_checked])

RECURSIVE bruteforce_loop(_, _, _, _)
\* the for loop over the permutations, from the k-th one, with the loop state st
bruteforce_loop(perms, k, D, st) ==
    IF k > Len(perms) THEN st
    ELSE LET tour   == <<0>> \o perms[k]
             length == calculate_tour_length(tour, D)
             better == length < st.best_length
         IN  bruteforce_loop(perms, k + 1, D,
                 [best_tour   |-> IF better THEN tour ELSE st.best_tour,
                  best_length |-> IF better THEN length ELSE st.best_length,
                  permutations_checked |-> st.permutations_checked + 1])

\* bruteforce_precheck taking a single point for no points
bruteforce_precheck_strict(D, ids) ==
    LET n == Len(ids)
    IN  IF n <= 1 THEN "EmptyInput"
        ELSE IF n > 12 THEN "SizeExceeded"
        ELSE IF any_isinf(D, n) THEN "Disconnected"
        ELSE "search"

\* bruteforce_precheck without the test for no points
bruteforce_precheck_no_empty(D, ids) ==
    LET n == Len(ids)
    IN  IF n = 1 THEN "single"
        ELSE IF n > 12 THEN "SizeExceeded"
        ELSE IF any_isinf(D, n) THEN "Disconnected"
        ELSE "search"

\* which branch the checks at the head of solve_tsp_bruteforce take
bruteforce_precheck(D, ids) ==
    LET n == Len(ids)
    IN  IF n = 0 THEN "EmptyInput"
        ELSE IF n = 1 THEN "single"
        ELSE IF n > 12 THEN "SizeExceeded"
        ELSE IF any_isinf(D, n) THEN "Disconnected"
        ELSE "search"

solve_tsp_bruteforce(D, ids) ==
    LET n   == Len(ids)
        pre == bruteforce_precheck(D, ids)
    IN  IF pre = "single"
        THEN [status |-> "ok", tour |-> <<ids[1]>>, length |-> 0,
              permutations_checked |-> 1]
        ELSE IF pre # "search" THEN Raise(pre)
        ELSE LET indices == [k \in 1..n |-> k - 1]
                 st == bruteforce_loop(permutations(SubSeq(indices, 2, n)), 1, D,
                           [best_tour |-> NoTour, best_length |-> INF,
                            permutations_checked |-> 0])
             IN  IF st.best_tour = NoTour THEN Raise("TypeError")
                 ELSE IF \E k \in 1..Len(st.best_tour) : st.best_tour[k] >= n
                 THEN Raise("IndexError")
                 ELSE [status |-> "ok", tour |-> ToIds(st.best_tour, ids),
                       length |-> st.best_length,
                       permutations_checked |-> st.permutations_checked]

RECURSIVE SegmentSum(_, _, _)
\* the sum of D[idx[i]][idx[(i + 1) % len]] for i = k-1, ..., len-1
SegmentSum(idx, D, k) ==
    IF k > Len(idx) THEN 0
    ELSE Plus(D[idx[k]][idx[(k % Len(idx)) + 1]], SegmentSum(idx, D, k + 1))

get_tour_statistics(tour_ids, D, ids) ==
    IF Len(tour_ids) = 0 THEN [num_points |-> 0, total_length |-> 0]
    ELSE LET tour_indices == [k \in 1..Len(tour_ids) |-> id_to_idx(ids, tour_ids[k])]
         IN  [num_points   |-> Len(tour_ids),
              total_length |-> SegmentSum(tour_indices, D, 1)]

---------------------------------------------------------------------------
(* tsp_heldkarp.py *)

\* (mask, i) in dp
InTable(t, mask, i) == <<mask, i>> \in DOMAIN t

\* t[(mask, i)] = v
Store(t, mask, i, v) == (<<mask, i>> :> v) @@ t

RECURSIVE heldkarp_best_prev_transposed(_, _, _, _, _, _, _)
\* heldkarp_best_prev reading distance_matrix[i][j], the edge backwards
heldkarp_best_prev_transposed(D, n, dp, prev_mask, i, j, acc) ==
    IF j >= n THEN acc
    ELSE IF ~BitSet(prev_mask, j)
    THEN heldkarp_best_prev_transposed(D, n, dp, prev_mask, i, j + 1, acc)
    ELSE IF ~InTable(dp, prev_mask, j)
    THEN heldkarp_best_prev_transposed(D, n, dp, prev_mask, i, j + 1, acc)
    ELSE LET dist == Plus(dp[<<prev_mask, j>>], D[i][j])
         IN  heldkarp_best_prev_transposed(D, n, dp, prev_mask, i, j + 1,
                 IF dist < acc.min_dist
                 THEN [min_dist |-> dist, best_prev |-> j]
                 ELSE acc)

RECURSIVE heldkarp_best_prev(_, _, _, _, _, _, _)
\* the for j loop: the cheapest predecessor of i among the cities of prev_mask
heldkarp_best_prev(D, n, dp, prev_mask, i, j, acc) ==
    IF j >= n THEN acc
    ELSE IF ~BitSet(prev_mask, j) THEN heldkarp_best_prev(D, n, dp, prev_mask, i, j + 1, acc)
    ELSE IF ~InTable(dp, prev_mask, j) THEN heldkarp_best_prev(D, n, dp, prev_mask, i, j + 1, acc)
    ELSE LET dist == Plus(dp[<<prev_mask, j>>], D[j][i])
         IN  heldkarp_best_prev(D, n, dp, prev_mask, i, j + 1,
                 IF dist < acc.min_dist
                 THEN [min_dist |-> dist, best_prev |-> j]
                 ELSE acc)

\* the body of the for i loop for one state (mask, i)
heldkarp_state(D, n, mask, i, st) ==
    IF ~BitSet(mask, i) THEN st
    ELSE IF mask = Shl(0) /\ i = 0 THEN st
    ELSE LET prev_mask == XorBit(mask, i)
             best == heldkarp_best_prev(D, n, st.dp, prev_mask, i, 0,
                         [min_dist |-> INF, best_prev |-> NoCity])
         IN  IF best.min_dist < INF
             THEN [dp     |-> Store(st.dp, mask, i, best.min_dist),
                   parent |-> Store(st.parent, mask, i, best.best_prev),
                   subproblems_solved |-> st.subproblems_solved + 1]
             ELSE st

RECURSIVE heldkarp_cities(_, _, _, _, _)
\* for i in range(i, n): the states (mask, i) of one mask, in order
heldkarp_cities(D, n, mask, i, st) ==
    IF i >= n THEN st
    ELSE LET next == heldkarp_state(D, n, mask, i, st)
         IN  IF next.subproblems_solved >= 1
             THEN heldkarp_cities(D, n, mask, i + 1, next)
             ELSE next

\* the body of the for mask loop: masks without city 0 are skipped
heldkarp_mask(D, n, mask, st) ==
    IF ~BitSet(mask, 0) THEN st ELSE heldkarp_cities(D, n, mask, 0, st)

RECURSIVE heldkarp_fill(_, _, _, _, _)
\* for mask in range(lo, hi), in increasing order. The range is evaluated by
\* halves and each intermediate table is inspected before it is passed on
\* (the counter is always >= 1): this only keeps the evaluation shallow.
heldkarp_fill(D, n, lo, hi, st) ==
    IF lo >= hi THEN st
    ELSE IF hi = lo + 1 THEN heldkarp_mask(D, n, lo, st)
    ELSE LET mid   == (lo + hi) \div 2
             lower == heldkarp_fill(D, n, lo, mid, st)
         IN  IF lower.subproblems_solved >= 1
             THEN heldkarp_fill(D, n, mid, hi, lower)
             ELSE lower

\* heldkarp_table with the base case counted twice
heldkarp_table_base_twice(D, n) ==
    heldkarp_fill(D, n, 1, Shl(n),
        [dp     |-> (<<Shl(0), 0>> :> 0),
         parent |-> (<<Shl(0), 0>> :> NoCity),
         subproblems_solved |-> 2])

\* the DP table after the main loop
heldkarp_table(D, n) ==
    heldkarp_fill(D, n, 1, Shl(n),
        [dp     |-> (<<Shl(0), 0>> :> 0),
         parent |-> (<<Shl(0), 0>> :> NoCity),
         subproblems_solved |-> 1])

RECURSIVE heldkarp_last_open(_, _, _, _, _)
\* heldkarp_last without the edge back to city 0
heldkarp_last_open(D, n, dp, i, acc) ==
    IF i >= n THEN acc
    ELSE IF ~InTable(dp, Shl(n) - 1, i) THEN heldkarp_last_open(D, n, dp, i + 1, acc)
    ELSE LET tour_length == dp[<<Shl(n) - 1, i>>]
         IN  heldkarp_last_open(D, n, dp, i + 1,
                 IF tour_length < acc.min_tour_length
                 THEN [min_tour_length |-> tour_length, last_city |-> i]
                 ELSE acc)

RECURSIVE heldkarp_last(_, _, _, _, _)
\* for i in range(1, n): the cheapest city to close the tour from
heldkarp_last(D, n, dp, i, acc) ==
    IF i >= n THEN acc
    ELSE IF ~InTable(dp, Shl(n) - 1, i) THEN heldkarp_last(D, n, dp, i + 1, acc)
    ELSE LET tour_length == Plus(dp[<<Shl(n) - 1, i>>], D[i][0])
         IN  heldkarp_last(D, n, dp, i + 1,
                 IF tour_length < acc.min_tour_length
                 THEN [min_tour_length |-> tour_length, last_city |-> i]
                 ELSE acc)

RECURSIVE heldkarp_walk_short(_, _, _, _)
\* heldkarp_walk stopping one step early, at the city whose parent is None
heldkarp_walk_short(parent, mask, current, tour) ==
    IF current = NoCity THEN tour
    ELSE IF ~InTable(parent, mask, current) THEN tour
    ELSE IF parent[<<mask, current>>] = NoCity THEN tour
    ELSE heldkarp_walk_short(parent, XorBit(mask, current), parent[<<mask, current>>],
                             Append(tour, current))

RECURSIVE heldkarp_walk(_, _, _, _)
\* while current is not None: follow the parent chain, collecting the cities
heldkarp_walk(parent, mask, current, tour) ==
    IF current = NoCity THEN tour
    ELSE IF ~InTable(parent, mask, current) THEN Append(tour, current)
    ELSE heldkarp_walk(parent, XorBit(mask, current), parent[<<mask, current>>],
                       Append(tour, current))

\* tour.reverse()
Reverse(s) == [k \in 1..Len(s) |-> s[Len(s) + 1 - k]]

\* heldkarp_precheck with the size test one point early
heldkarp_precheck_early(D, ids) ==
    LET n == Len(ids)
    IN  IF n = 0 THEN "EmptyInput"
        ELSE IF n = 1 THEN "single"
        ELSE IF n = 2 THEN "pair"
        ELSE IF n >= 23 THEN "SizeExceeded"
        ELSE IF any_isinf(D, n) THEN "Disconnected"
        ELSE "search"

\* which branch the checks at the head of solve_tsp_heldkarp take
heldkarp_precheck(D, ids) ==
    LET n == Len(ids)
    IN  IF n = 0 THEN "EmptyInput"
        ELSE IF n = 1 THEN "single"
        ELSE IF n = 2 THEN "pair"
        ELSE IF n > 23 THEN "SizeExceeded"
        ELSE IF any_isinf(D, n) THEN "Disconnected"
        ELSE "search"

solve_tsp_heldkarp(D, ids) ==
    LET n   == Len(ids)
        pre == heldkarp_precheck(D, ids)
    IN  IF pre = "single"
        THEN [status |-> "ok", tour |-> <<ids[1]>>, length |-> 0,
              subproblems_solved |-> 1]
        ELSE IF pre = "pair"
        THEN [status |-> "ok", tour |-> <<ids[1], ids[2]>>,
              length |-> Plus(D[0][1], D[1][0]), subproblems_solved |-> 2]
        ELSE IF pre # "search" THEN Raise(pre)
        ELSE LET st   == heldkarp_table(D, n)
                 last == heldkarp_last(D, n, st.dp, 1,
                             [min_tour_length |-> INF, last_city |-> NoCity])
             IN  IF last.last_city = NoCity THEN Raise("Disconnected")
                 ELSE [status |-> "ok",
                       tour   |-> ToIds(Reverse(heldkarp_walk(st.parent, Shl(n) - 1,
                                                              last.last_city, <<>>)), ids),
                       length |-> last.min_tour_length,
                       subproblems_solved |-> st.subproblems_solved]

RECURSIVE total_distance(_, _, _, _)
\* for i in range(len(tour_ids)): total_dist += D[id_to_idx[from_id]][id_to_idx[to_id]]
total_distance(tour_ids, D, ids, k) ==
    IF k > Len(tour_ids) THEN 0
    ELSE LET from_idx == id_to_idx(ids, tour_ids[k])
             to_idx   == id_to_idx(ids, tour_ids[(k % Len(tour_ids)) + 1])
         IN  Plus(D[from_idx][to_idx], total_distance(tour_ids, D, ids, k + 1))

\* get_tour_statistics of tsp_heldkarp.py
get_tour_statistics_hk(tour_ids, D, ids) ==
    IF Len(tour_ids) = 0 THEN [num_points |-> 0]
    ELSE [num_points     |-> Len(tour_ids),
          total_distance |-> total_distance(tour_ids, D, ids, 1)]

---------------------------------------------------------------------------
(* tsp_greedy.py *)

RECURSIVE nearest_unvisited_remembering(_, _, _, _, _, _)
\* nearest_unvisited that treats ties differently once a call has returned
\* (a preference kept between calls): `<=` in place of `<` from then on
nearest_unvisited_remembering(D, n, visited, current, next_city, acc) ==
    IF next_city >= n THEN acc
    ELSE IF next_city \in visited
    THEN nearest_unvisited_remembering(D, n, visited, current, next_city + 1, acc)
    ELSE LET distance == D[current][next_city]
             closer   == IF gr.status = "ok"
                         THEN distance <= acc.nearest_distance
                         ELSE distance < acc.nearest_distance
         IN  nearest_unvisited_remembering(D, n, visited, current, next_city + 1,
                 [nearest_city     |-> IF closer THEN next_city ELSE acc.nearest_city,
                  nearest_distance |-> IF closer THEN distance ELSE acc.nearest_distance,
                  distance_queries |-> acc.distance_queries + 1])

RECURSIVE nearest_unvisited_last_tie(_, _, _, _, _, _)
\* nearest_unvisited with `<=` in place of `<`: on a tie the later city wins
nearest_unvisited_last_tie(D, n, visited, current, next_city, acc) ==
    IF next_city >= n THEN acc
    ELSE IF next_city \in visited
    THEN nearest_unvisited_last_tie(D, n, visited, current, next_city + 1, acc)
    ELSE LET distance == D[current][next_city]
             closer   == distance <= acc.nearest_distance
         IN  nearest_unvisited_last_tie(D, n, visited, current, next_city + 1,
                 [nearest_city     |-> IF closer THEN next_city ELSE acc.nearest_city,
                  nearest_distance |-> IF closer THEN distance ELSE acc.nearest_distance,
                  distance_queries |-> acc.distance_queries + 1])

RECURSIVE nearest_unvisited(_, _, _, _, _, _)
\* for next_city in range(n): the nearest unvisited city, the first one on ties
nearest_unvisited(D, n, visited, current, next_city, acc) ==
    IF next_city >= n THEN acc
    ELSE IF next_city \in visited
    THEN nearest_unvisited(D, n, visited, current, next_city + 1, acc)
    ELSE LET distance == D[current][next_city]
             closer   == distance < acc.nearest_distance
         IN  nearest_unvisited(D, n, visited, current, next_city + 1,
                 [nearest_city     |-> IF closer THEN next_city ELSE acc.nearest_city,
                  nearest_distance |-> IF closer THEN distance ELSE acc.nearest_distance,
                  distance_queries |-> acc.distance_queries + 1])

RECURSIVE nearest_neighbor_loop(_, _, _, _)
\* for _ in range(n - 1): extend the tour by the nearest unvisited city
nearest_neighbor_loop(D, n, round, st) ==
    IF round > n - 1 \/ st.failed THEN st
    ELSE LET pick == nearest_unvisited(D, n, st.visited, st.current, 0,
                         [nearest_city |-> NoCity, nearest_distance |-> INF,
                          distance_queries |-> st.distance_queries])
         IN  IF pick.nearest_city = NoCity
             THEN [st EXCEPT !.failed = TRUE]
             ELSE nearest_neighbor_loop(D, n, round + 1,
                      [visited  |-> st.visited \cup {pick.nearest_city},
                       tour     |-> Append(st.tour, pick.nearest_city),
                       current  |-> pick.nearest_city,
                       total_distance   |-> Plus(st.total_distance, pick.nearest_distance),
                       distance_queries |-> pick.distance_queries,
                       failed   |-> FALSE])

\* which branch the checks at the head of solve_tsp_greedy_nearest_neighbor take
greedy_precheck(D, ids) ==
    LET n == Len(ids)
    IN  IF n = 0 THEN "EmptyInput"
        ELSE IF n = 1 THEN "single"
        ELSE IF n = 2 THEN "pair"
        ELSE IF any_isinf(D, n) THEN "Disconnected"
        ELSE "search"

solve_tsp_greedy_nearest_neighbor(D, ids) ==
    LET n   == Len(ids)
        pre == greedy_precheck(D, ids)
    IN  IF pre = "single"
        THEN [status |-> "ok", tour |-> <<ids[1]>>, length |-> 0,
              distance_queries |-> 0]
        ELSE IF pre = "pair"
        THEN [status |-> "ok", tour |-> <<ids[1], ids[2]>>,
              length |-> Plus(D[0][1], D[1][0]), distance_queries |-> 2]
        ELSE IF pre # "search" THEN Raise(pre)
        ELSE LET st == nearest_neighbor_loop(D, n, 1,
                           [visited |-> {0}, tour |-> <<0>>, current |-> 0,
                            total_distance |-> 0, distance_queries |-> 0,
                            failed |-> FALSE])
             IN  IF st.failed THEN Raise("NoUnvisited")
                 ELSE [status |-> "ok", tour |-> ToIds(st.tour, ids),
                       length |-> Plus(st.total_distance, D[st.current][0]),
                       distance_queries |-> st.distance_queries + 1]

RECURSIVE cycle_length_open(_, _, _)
\* cycle_length without the edge from the last position back to the first
cycle_length_open(tour_idx, D, k) ==
    IF k >= Len(tour_idx) THEN 0
    ELSE Plus(D[tour_idx[k]][tour_idx[k + 1]], cycle_length_open(tour_idx, D, k + 1))

\* the nested calculate_tour_length of improve_tour_with_2opt
RECURSIVE cycle_length(_, _, _)
cycle_length(tour_idx, D, k) ==
    IF k > Len(tour_idx) THEN 0
    ELSE Plus(D[tour_idx[k]][tour_idx[(k % Len(tour_idx)) + 1]],
              cycle_length(tour_idx, D, k + 1))

\* the test of one candidate swap (i, j), Python positions
two_opt_gain(t, D, i, j) ==
    LET n == Len(t)
        current_edges_cost == Plus(D[t[i + 1]][t[i + 2]], D[t[j + 1]][t[((j + 1) % n) + 1]])
        new_edges_cost     == Plus(D[t[i + 1]][t[j + 1]], D[t[i + 2]][t[((j + 1) % n) + 1]])
    IN  new_edges_cost < current_edges_cost

\* reverse_segment with the slice taken from i, one position early
reverse_segment_from_i(t, i, j) ==
    [k \in 1..Len(t) |-> IF k >= i + 1 /\ k <= j + 1 THEN t[(i + 1) + (j + 1) - k] ELSE t[k]]

\* current_tour[i + 1:j + 1] = reversed(current_tour[i + 1:j + 1])
reverse_segment(t, i, j) ==
    [k \in 1..Len(t) |-> IF k >= i + 2 /\ k <= j + 1 THEN t[(i + 2) + (j + 1) - k] ELSE t[k]]

RECURSIVE two_opt_sweep_short(_, _, _, _)
\* two_opt_sweep with for j in range(i + 2, n - 1): the last position is
\* never tried as j
two_opt_sweep_short(t, D, i, j) ==
    LET n == Len(t)
    IN  IF i >= n - 1 THEN NoTour
        ELSE IF j >= n - 1 THEN two_opt_sweep_short(t, D, i + 1, i + 3)
        ELSE IF two_opt_gain(t, D, i, j) THEN reverse_segment(t, i, j)
        ELSE two_opt_sweep_short(t, D, i, j + 1)

RECURSIVE two_opt_sweep(_, _, _, _)
\* one pass of the nested for loops from (i, j): the tour after the first
\* improving swap, or NoTour when the pass ends without one
two_opt_sweep(t, D, i, j) ==
    LET n == Len(t)
    IN  IF i >= n - 1 THEN NoTour
        ELSE IF j >= n THEN two_opt_sweep(t, D, i + 1, i + 3)
        ELSE IF two_opt_gain(t, D, i, j) THEN reverse_segment(t, i, j)
        ELSE two_opt_sweep(t, D, i, j + 1)

\* two_opt_after with `iterations += 1` left out of a sweep that swaps
two_opt_after_uncounted(D, st, swapped) ==
    IF swapped = NoTour
    THEN [st EXCEPT !.improved = FALSE, !.iterations = st.iterations + 1]
    ELSE [current_tour   |-> swapped,
          current_length |-> cycle_length(swapped, D, 1),
          swaps_made     |-> st.swaps_made + 1,
          iterations     |-> st.iterations,
          improved       |-> TRUE]

\* the loop variables after a sweep that returned `swapped`
two_opt_after(D, st, swapped) ==
    IF swapped = NoTour
    THEN [st EXCEPT !.improved = FALSE, !.iterations = st.iterations + 1]
    ELSE [current_tour   |-> swapped,
          current_length |-> cycle_length(swapped, D, 1),
          swaps_made     |-> st.swaps_made + 1,
          iterations     |-> st.iterations + 1,
          improved       |-> TRUE]

\* one turn of the while loop: a sweep, when the loop condition
\* `improved and iterations < max_iterations` holds; otherwise the loop is over
two_opt_iteration(D, max_iterations, st) ==
    IF ~(st.improved /\ st.iterations < max_iterations) THEN st
    ELSE two_opt_after(D, st, two_opt_sweep(st.current_tour, D, 0, 2))

RECURSIVE two_opt_loop(_, _, _, _)
\* the next `turns` turns of the while loop, in order (evaluated by halves,
\* which keeps the nesting of the evaluation logarithmic in max_iterations)
two_opt_loop(D, max_iterations, turns, st) ==
    IF ~(st.improved /\ st.iterations < max_iterations) \/ turns <= 0 THEN st
    ELSE IF turns = 1 THEN two_opt_iteration(D, max_iterations, st)
    ELSE two_opt_loop(D, max_iterations, turns - (turns \div 2),
             two_opt_loop(D, max_iterations, turns \div 2, st))

improve_tour_with_2opt(tour, D, ids, max_iterations) ==
    LET tour_indices == [k \in 1..Len(tour) |-> id_to_idx(ids, tour[k])]
        st == two_opt_loop(D, max_iterations, max_iterations,
                  [current_tour   |-> tour_indices,
                   current_length |-> cycle_length(tour_indices, D, 1),
                   swaps_made |-> 0, iterations |-> 0, improved |-> TRUE])
    IN  [tour |-> ToIds(st.current_tour, ids), length |-> st.current_length,
         swaps_made |-> st.swaps_made, iterations |-> st.iterations]

\* the division on plain Python floats: a zero divisor raises
improvement_percent_python(greedy_length, improved_length) ==
    IF greedy_length = 0 THEN [kind |-> "ZeroDivisionError", val |-> 0]
    ELSE IF greedy_length = INF THEN [kind |-> "nan", val |-> 0]
    ELSE IF improved_length = INF THEN [kind |-> "-inf", val |-> 0]
    ELSE [kind |-> "num",
          val  |-> ((greedy_length - improved_length) * 100) \div greedy_length]

\* ((greedy_length - improved_length) / greedy_length) * 100 on numpy floats:
\* a division by zero or inf - inf does not raise, it yields nan or +-inf.
\* A finite quotient is kept rounded down to a whole percent.
improvement_percent(greedy_length, improved_length) ==
    LET g == greedy_length
        i == improved_length
    IN  IF g = INF THEN [kind |-> "nan", val |-> 0]
        ELSE IF i = INF THEN [kind |-> "-inf", val |-> 0]
        ELSE IF g = 0
        THEN IF g - i = 0 THEN [kind |-> "nan", val |-> 0]
             ELSE IF g - i > 0 THEN [kind |-> "+inf", val |-> 0]
             ELSE [kind |-> "-inf", val |-> 0]
        ELSE [kind |-> "num", val |-> ((g - i) * 100) \div g]

solve_tsp_greedy_with_2opt(D, ids, max_iterations) ==
    LET greedy == solve_tsp_greedy_nearest_neighbor(D, ids)
    IN  IF greedy.status # "ok" THEN greedy
        ELSE LET improved == improve_tour_with_2opt(greedy.tour, D, ids, max_iterations)
             IN  [status |-> "ok", tour |-> improved.tour, length |-> improved.length,
                  greedy_tour         |-> greedy.tour,
                  greedy_length       |-> greedy.length,
                  improved_length     |-> improved.length,
                  improvement_percent |-> improvement_percent(greedy.length, improved.length),
                  distance_queries    |-> greedy.distance_queries,
                  two_opt_swaps       |-> improved.swaps_made,
                  iterations          |-> improved.iterations]

\* get_tour_statistics of tsp_greedy.py
get_tour_statistics_greedy(tour_ids, D, ids) ==
    IF Len(tour_ids) = 0 THEN [num_points |-> 0]
    ELSE [num_points     |-> Len(tour_ids),
          total_distance |-> total_distance(tour_ids, D, ids, 1)]

---------------------------------------------------------------------------
(* Inputs *)

\* the entries a matrix may hold: finite costs and +inf
Values == (0..MaxCost) \cup {INF}

\* position of the pair i < j among the pairs above the diagonal, row by row
UpperIndex(n, i, j) == (i * (2 * n - i - 1)) \div 2 + (j - i - 1)

\* position of the pair i # j among the off-diagonal pairs, row by row
OffDiagIndex(n, i, j) == i * (n - 1) + (IF j > i THEN j - 1 ELSE j)

\* an n x n matrix with a zero diagonal whose other entries are taken from the
\* weights w in turn; symmetric (as build_distance_matrix fills it) or not
MatrixOf(n, w, symmetric) ==
    [i \in 0..(n - 1) |-> [j \in 0..(n - 1) |->
        IF i = j THEN 0
        ELSE IF symmetric
        THEN w[UpperIndex(n, IF i < j THEN i ELSE j, IF i < j THEN j ELSE i) % NumWeights]
        ELSE w[OffDiagIndex(n, i, j) % NumWeights]]]

\* caller-defined identifiers: distinct, not contiguous, not sorted
PointId(k) == 7 * ((k + 3) % 5) + k

IdsOf(n) == [k \in 1..n |-> PointId(k - 1)]

\* a matrix written row by row, as in the tests
FromRows(rows) ==
    [i \in 0..(Len(rows) - 1) |-> [j \in 0..(Len(rows) - 1) |-> rows[i + 1][j + 1]]]

\* scenario S1: the 3-city triangle
S1 == FromRows(<< <<0, 10, 15>>, <<10, 0, 20>>, <<15, 20, 0>> >>)

\* scenario S2: the 4-city matrix with optimum 80
S2 == FromRows(<< <<0, 10, 15, 20>>, <<10, 0, 35, 25>>,
                  <<15, 35, 0, 30>>, <<20, 25, 30, 0>> >>)

\* no call made yet
NotRun == [status |-> "none", tour |-> NoTour, length |-> 0]

\* no statistics computed yet
NoStats == [num_points |-> 0]

\* an empty dict
EmptyCache == <<>>

\* nothing returned or raised yet
NoResponse == [kind |-> "none"]

\* the session as it is when the process starts, before any request
SessionAtStart ==
    /\ network_cache = EmptyCache
    /\ points_cache = EmptyCache
    /\ points_file = <<>>
    /\ pending = {}
    /\ response = NoResponse
    /\ written_by = EmptyCache
    /\ next_request = 1

Init ==
    /\ \/ \E n \in 0..MaxN : \E symmetric \in BOOLEAN :
            \E w \in [0..(NumWeights - 1) -> Values] :
                /\ distance_matrix = MatrixOf(n, w, symmetric)
                /\ point_ids = IdsOf(n)
       \/ /\ distance_matrix = S1
          /\ point_ids = <<0, 1, 2>>
       \/ /\ distance_matrix = S2
          /\ point_ids = <<0, 1, 2, 3>>
    /\ bf = NotRun
    /\ hk = NotRun
    /\ gr = NotRun
    /\ bf_stats = NoStats
    /\ hk_stats = NoStats
    /\ gr_stats = NoStats
    /\ SessionAtStart

---------------------------------------------------------------------------
(* Operations: a solver call followed, when it returned a tour, by the     *)
(* statistics call that accompanies it (tsp.py:82,101 and the tests'       *)
(* test_tour_statistics).                                                  *)

RunBruteforce ==
    LET res == solve_tsp_bruteforce(distance_matrix, point_ids)
    IN  /\ bf' = res
        /\ bf_stats' = IF res.status = "ok"
                       THEN get_tour_statistics(res.tour, distance_matrix, point_ids)
                       ELSE NoStats
        /\ UNCHANGED <<distance_matrix, point_ids, hk, gr, hk_stats, gr_stats,
                     network_cache, points_cache, points_file, pending, response,
                     written_by, next_request>>

RunHeldKarp ==
    LET res == solve_tsp_heldkarp(distance_matrix, point_ids)
    IN  /\ hk' = res
        /\ hk_stats' = IF res.status = "ok"
                       THEN get_tour_statistics_hk(res.tour, distance_matrix, point_ids)
                       ELSE NoStats
        /\ UNCHANGED <<distance_matrix, point_ids, bf, gr, bf_stats, gr_stats,
                     network_cache, points_cache, points_file, pending, response,
                     written_by, next_request>>

RunGreedy2opt ==
    LET res == solve_tsp_greedy_with_2opt(distance_matrix, point_ids, MAX_ITERATIONS)
    IN  /\ gr' = res
        /\ gr_stats' = IF res.status = "ok"
                       THEN get_tour_statistics_greedy(res.tour, distance_matrix, point_ids)
                       ELSE NoStats
        /\ UNCHANGED <<distance_matrix, point_ids, bf, hk, bf_stats, hk_stats,
                     network_cache, points_cache, points_file, pending, response,
                     written_by, next_request>>

Next == RunBruteforce \/ RunHeldKarp \/ RunGreedy2opt

Spec == Init /\ [][Next]_vars

---------------------------------------------------------------------------
(* The size guards.  The inputs are matrices of up to MaxPoints points,    *)
(* all of whose off-diagonal entries are 1, or +inf between the first and  *)
(* the last point.  Each operation runs the checks at the head of a solver *)
(* and records the branch taken; the search itself is left to Spec.        *)

UniformMatrix(n, disconnected) ==
    [i \in 0..(n - 1) |-> [j \in 0..(n - 1) |->
        IF i = j THEN 0
        ELSE IF disconnected /\ {i, j} = {0, n - 1} THEN INF
        ELSE 1]]

InitCaps ==
    /\ \E n \in 0..MaxPoints : \E disconnected \in BOOLEAN :
          /\ distance_matrix = UniformMatrix(n, disconnected)
          /\ point_ids = IdsOf(n)
    /\ bf = NotRun
    /\ hk = NotRun
    /\ gr = NotRun
    /\ bf_stats = NoStats
    /\ hk_stats = NoStats
    /\ gr_stats = NoStats
    /\ SessionAtStart

EnterBruteforce ==
    /\ bf' = [status |-> bruteforce_precheck(distance_matrix, point_ids)]
    /\ UNCHANGED <<distance_matrix, point_ids, hk, gr, bf_stats, hk_stats, gr_stats,
                     network_cache, points_cache, points_file, pending, response,
                     written_by, next_request>>

EnterHeldKarp ==
    /\ hk' = [status |-> heldkarp_precheck(distance_matrix, point_ids)]
    /\ UNCHANGED <<distance_matrix, point_ids, bf, gr, bf_stats, hk_stats, gr_stats,
                     network_cache, points_cache, points_file, pending, response,
                     written_by, next_request>>

EnterGreedy2opt ==
    /\ gr' = [status |-> greedy_precheck(distance_matrix, point_ids)]
    /\ UNCHANGED <<distance_matrix, point_ids, bf, hk, bf_stats, hk_stats, gr_stats,
                     network_cache, points_cache, points_file, pending, response,
                     written_by, next_request>>

NextCaps == EnterBruteforce \/ EnterHeldKarp \/ EnterGreedy2opt

SpecCaps == InitCaps /\ [][NextCaps]_vars

---------------------------------------------------------------------------
(* Properties *)

\* the calls made so far that returned a tour
Returned == {r \in {bf, hk, gr} : r.status = "ok"}

\* every entry of the matrix is finite
Finite == ~any_isinf(distance_matrix, Len(point_ids))

\* the matrix is symmetric
Symmetric ==
    \A i \in 0..(Len(point_ids) - 1) : \A j \in 0..(Len(point_ids) - 1) :
        distance_matrix[i][j] = distance_matrix[j][i]

\* tour holds each caller-supplied identifier exactly once, and nothing else
IsPermutationOfIds(tour) ==
    /\ Len(tour) = Len(point_ids)
    /\ \A k \in 1..Len(point_ids) :
          Cardinality({m \in 1..Len(tour) : tour[m] = point_ids[k]}) = 1

\* the position in point_ids of the identifier pid
IndexOfId(pid) == CHOOSE k \in 1..Len(point_ids) : point_ids[k] = pid

RECURSIVE EdgeSum(_, _)
\* the costs of the edges leaving positions k..Len(tour) of a tour of
\* identifiers, the last one closing the cycle back to the first position
EdgeSum(tour, k) ==
    IF k > Len(tour) THEN 0
    ELSE Plus(distance_matrix[IndexOfId(tour[k]) - 1]
                             [IndexOfId(tour[(k % Len(tour)) + 1]) - 1],
              EdgeSum(tour, k + 1))

RECURSIVE Orderings(_)
\* every ordering of the set S, as a sequence
Orderings(S) ==
    IF S = {} THEN {<<>>}
    ELSE UNION {{<<x>> \o p : p \in Orderings(S \ {x})} : x \in S}

\* the closed tours over all identifiers that start at point_ids[1]
ToursFromFirst ==
    {<<point_ids[1]>> \o p :
        p \in Orderings({point_ids[k] : k \in 2..Len(point_ids)})}

\* C1: every tour returned by the brute-force, Held-Karp and greedy + 2-opt
\* solvers holds each element of point_ids exactly once, as the identifier
\* the caller supplied, and on a finite matrix of 1..MaxN points each of the
\* solvers does return a tour.
C1_TourIsPermutation ==
    /\ \A r \in Returned : IsPermutationOfIds(r.tour)
    /\ \A r \in {bf, hk, gr} :
          (r.status # "none" /\ Finite /\ Len(point_ids) >= 1) => r.status = "ok"

\* all three solvers returned on four or more points with identifiers that
\* are not the matrix indices, in an order other than the input's
C1_Witness ==
    /\ Len(point_ids) >= 4
    /\ point_ids[1] # 0
    /\ bf.status = "ok" /\ hk.status = "ok" /\ gr.status = "ok"
    /\ bf.tour # point_ids /\ hk.tour # point_ids /\ gr.tour # point_ids

\* C2: a returned tour starts with point_ids[0] and does not repeat it at
\* its end; this holds after accepted 2-opt swaps and for the tour rebuilt
\* from the Held-Karp parent chain.
C2_TourStartsAtFirstPoint ==
    /\ \A r \in Returned :
          /\ r.tour[1] = point_ids[1]
          /\ Len(r.tour) = Len(point_ids)
          /\ Len(r.tour) >= 2 => r.tour[Len(r.tour)] # point_ids[1]
    /\ gr.status = "ok" => gr.greedy_tour[1] = point_ids[1]

\* 2-opt accepted a swap, and Held-Karp rebuilt a tour from its parent chain
C2_Witness ==
    /\ gr.status = "ok" /\ gr.two_opt_swaps >= 1
    /\ gr.tour # gr.greedy_tour
    /\ hk.status = "ok" /\ Len(point_ids) >= 3
    /\ bf.status = "ok"

\* C3: on a finite matrix of 1..MaxN points brute force and Held-Karp both
\* return, with equal lengths; the length is 45 on S1 and 80 on S2.
C3_ExactSolversAgree ==
    /\ (bf.status # "none" /\ hk.status # "none" /\ Finite /\ Len(point_ids) >= 1)
          => (bf.status = "ok" /\ hk.status = "ok" /\ bf.length = hk.length)
    /\ \A r \in {bf, hk} :
          /\ (r.status # "none" /\ distance_matrix = S1) => (r.status = "ok" /\ r.length = 45)
          /\ (r.status # "none" /\ distance_matrix = S2) => (r.status = "ok" /\ r.length = 80)

\* both exact solvers ran on S2 and found 80 by different tours
C3_Witness ==
    /\ distance_matrix = S2
    /\ bf.status = "ok" /\ hk.status = "ok"
    /\ bf.length = 80 /\ hk.length = 80
    /\ bf.tour # hk.tour

\* C4: on a finite matrix of 2..MaxN points the length brute force returns
\* is the minimum, over all orderings of the points that start at
\* point_ids[0], of the closed tour's length, and its tour attains it.
C4_BruteforceIsMinimum ==
    (bf.status # "none" /\ Finite /\ Len(point_ids) >= 2) =>
        /\ bf.status = "ok"
        /\ \A t \in ToursFromFirst : bf.length <= EdgeSum(t, 1)
        /\ bf.tour \in ToursFromFirst
        /\ EdgeSum(bf.tour, 1) = bf.length

\* brute force returned on four or more points where the orderings differ in
\* length and the first ordering tried is not a shortest one
C4_Witness ==
    /\ bf.status = "ok" /\ Len(point_ids) >= 4
    /\ EdgeSum(point_ids, 1) > bf.length
    /\ \E t \in ToursFromFirst : EdgeSum(t, 1) > bf.length

\* C5: the length returned with a tour is the sum of the matrix entries over
\* its consecutive points plus the closing edge, for brute force, Held-Karp,
\* greedy nearest neighbour and greedy + 2-opt; get_tour_statistics
\* recomputes the same total.
C5_LengthIsSumOfEdges ==
    /\ \A r \in Returned : r.length = EdgeSum(r.tour, 1)
    /\ gr.status = "ok" => gr.greedy_length = EdgeSum(gr.greedy_tour, 1)
    /\ bf.status = "ok" => bf_stats.total_length = bf.length
    /\ hk.status = "ok" => hk_stats.total_distance = hk.length
    /\ gr.status = "ok" => gr_stats.total_distance = gr.length

\* the three solvers returned tours of positive finite length, 2-opt having
\* shortened the greedy one
C5_Witness ==
    /\ bf.status = "ok" /\ hk.status = "ok" /\ gr.status = "ok"
    /\ Len(point_ids) >= 4
    /\ bf.length > 0 /\ bf.length < INF
    /\ gr.two_opt_swaps >= 1 /\ gr.length < gr.greedy_length

\* C6: on a symmetric finite matrix greedy + 2-opt reports an improved
\* length that is at most the greedy length, and an improvement percentage
\* that is a number and is at least 0.
C6_TwoOptNeverWorsens ==
    (gr.status = "ok" /\ Finite /\ Symmetric) =>
        /\ gr.improved_length <= gr.greedy_length
        /\ gr.improvement_percent.kind = "num"
        /\ gr.improvement_percent.val >= 0

\* C7: with two or more points and a +inf entry in the matrix, every solver
\* that ran failed with Disconnected, and none returned a tour.
C7_InfiniteEntryIsRejected ==
    (Len(point_ids) >= 2 /\ ~Finite) =>
        \A r \in {bf, hk, gr} : r.status # "none" => r.status = "Disconnected"

\* C8: with a single point each solver returns the tour [point_ids[0]] with
\* length 0, and none fails.
C8_SinglePoint ==
    Len(point_ids) = 1 =>
        \A r \in {bf, hk, gr} :
            r.status # "none" =>
                (r.status = "ok" /\ r.tour = <<point_ids[1]>> /\ r.length = 0)

\* the three solvers ran on one point
C8_Witness ==
    /\ Len(point_ids) = 1
    /\ bf.status = "ok" /\ hk.status = "ok" /\ gr.status = "ok"
    /\ gr.two_opt_swaps = 0

\* C9: with no points each solver fails with EmptyInput and returns no tour.
C9_NoPoints ==
    Len(point_ids) = 0 =>
        \A r \in {bf, hk, gr} :
            r.status # "none" => (r.status = "EmptyInput" /\ r.tour = NoTour)

\* the three solvers ran on no points and failed
C9_Witness ==
    /\ Len(point_ids) = 0
    /\ bf.status = "EmptyInput" /\ hk.status = "EmptyInput" /\ gr.status = "EmptyInput"

\* C10: on a finite matrix brute force fails with SizeExceeded exactly when
\* there are 13 or more points, Held-Karp exactly when there are 24 or more,
\* and greedy + 2-opt never does.
C10_SizeCaps ==
    Finite =>
        /\ bf.status # "none" => (bf.status = "SizeExceeded" <=> Len(point_ids) >= 13)
        /\ hk.status # "none" => (hk.status = "SizeExceeded" <=> Len(point_ids) >= 24)
        /\ gr.status # "SizeExceeded"

\* 24 points of a finite matrix: both exact solvers refuse, greedy goes on
C10_Witness ==
    /\ Len(point_ids) = 24 /\ Finite
    /\ bf.status = "SizeExceeded" /\ hk.status = "SizeExceeded"
    /\ gr.status = "search"

---------------------------------------------------------------------------
(* Road graphs.  A graph is [file, nodes, edges]: the upload it was built  *)
(* from, its nodes 1 .. nodes in insertion order, and its directed edges   *)
(* <<u, v>>.  The nodes lie on the line y = 0, node k at x = k * k - 1, so *)
(* that the nearest point of an edge to a point with whole coordinates has *)
(* whole coordinates; edges join neighbouring nodes and carry as 'length'  *)
(* the distance between their ends.  Distances between coordinates are     *)
(* compared by their squares.                                              *)

\* largest number of nodes of a graph in SpecGraph
MaxNodes == 3
\* largest number of rows of a points file in SpecGraph
MaxRows == 3

\* closest_node = None
NoNode == 0

\* (data['x'], data['y']) of node k
NodeXY(k) == <<k * k - 1, 0>>

\* data['length'] of the edge (u, v)
EdgeLength(u, v) ==
    IF NodeXY(u)[1] >= NodeXY(v)[1] THEN NodeXY(u)[1] - NodeXY(v)[1]
    ELSE NodeXY(v)[1] - NodeXY(u)[1]

\* point.distance(other), squared
SqDistance(a, b) == (a[1] - b[1]) * (a[1] - b[1]) + (a[2] - b[2]) * (a[2] - b[2])

\* the least element of a non-empty set of numbers
Least(S) == CHOOSE x \in S : \A y \in S : x <= y

---------------------------------------------------------------------------
(* distance_matrix.py *)

RECURSIVE closest_node_loop(_, _, _, _)
\* for node_id, data in G.nodes(data=True), from node k
closest_node_loop(G, coords, k, acc) ==
    IF k > G.nodes THEN acc
    ELSE LET dist == SqDistance(coords, NodeXY(k))
         IN  closest_node_loop(G, coords, k + 1,
                 IF dist < acc.min_dist
                 THEN [min_dist |-> dist, closest_node |-> k]
                 ELSE acc)

\* the closest node, or NoNode where the source raises "No nodes found in graph"
find_closest_node(G, coords) ==
    closest_node_loop(G, coords, 1, [min_dist |-> INF, closest_node |-> NoNode]).closest_node

RECURSIVE path_length_within(_, _, _, _)
\* the least total 'length' of a directed path from s to t of at most hops
\* edges; INF when there is none
path_length_within(G, s, t, hops) ==
    IF s = t THEN 0
    ELSE IF hops <= 0 THEN INF
    ELSE LET succ == {w \in 1..G.nodes : <<s, w>> \in G.edges}
         IN  IF succ = {} THEN INF
             ELSE Least({Plus(EdgeLength(s, w), path_length_within(G, w, t, hops - 1)) :
                           w \in succ})

\* nx.shortest_path_length(G, source, target, weight='length'); INF stands
\* for NetworkXNoPath
shortest_path_length(G, source, target) ==
    path_length_within(G, source, target, G.nodes - 1)

compute_shortest_path_length(G, source_coords, target_coords) ==
    LET source_node == find_closest_node(G, source_coords)
        target_node == find_closest_node(G, target_coords)
    IN  IF source_node = target_node THEN 0
        ELSE shortest_path_length(G, source_node, target_node)

\* build_distance_matrix asking the oracle for each ordered pair, instead of
\* copying the upper triangle into the lower one
build_distance_matrix_directed(G, snapped_points) ==
    LET n == Len(snapped_points)
    IN  IF n = 0 THEN [status |-> "EmptyInput", distance_matrix |-> <<>>, point_ids |-> <<>>]
        ELSE IF n >= 2 /\ G.nodes = 0
        THEN [status |-> "NoNodes", distance_matrix |-> <<>>, point_ids |-> <<>>]
        ELSE [status |-> "ok",
              distance_matrix |->
                  [i \in 0..(n - 1) |-> [j \in 0..(n - 1) |->
                      IF i = j THEN 0
                      ELSE compute_shortest_path_length(G,
                               snapped_points[i + 1].snapped_coords,
                               snapped_points[j + 1].snapped_coords)]],
              point_ids |-> [k \in 1..n |-> snapped_points[k].id]]

\* [status, distance_matrix, point_ids]
build_distance_matrix(G, snapped_points) ==
    LET n == Len(snapped_points)
    IN  IF n = 0 THEN [status |-> "EmptyInput", distance_matrix |-> <<>>, point_ids |-> <<>>]
        ELSE IF n >= 2 /\ G.nodes = 0
        THEN [status |-> "NoNodes", distance_matrix |-> <<>>, point_ids |-> <<>>]
        ELSE [status |-> "ok",
              distance_matrix |->
                  [i \in 0..(n - 1) |-> [j \in 0..(n - 1) |->
                      IF i = j THEN 0
                      ELSE LET lo == IF i < j THEN i ELSE j
                               hi == IF i < j THEN j ELSE i
                           IN  compute_shortest_path_length(G,
                                   snapped_points[lo + 1].snapped_coords,
                                   snapped_points[hi + 1].snapped_coords)]],
              point_ids |-> [k \in 1..n |-> snapped_points[k].id]]

RECURSIVE shortest_path_within(_, _, _, _)
\* nx.shortest_path(G, source, target, weight='length'): the nodes of a
\* shortest path (on these graphs there is at most one simple path)
shortest_path_within(G, s, t, hops) ==
    IF s = t THEN <<s>>
    ELSE LET succ == {w \in 1..G.nodes : <<s, w>> \in G.edges}
             cost(w) == Plus(EdgeLength(s, w), path_length_within(G, w, t, hops - 1))
             best == Least({cost(w) : w \in succ})
             next == Least({w \in succ : cost(w) = best})
         IN  <<s>> \o shortest_path_within(G, next, t, hops - 1)

get_shortest_path_coords(G, source_coords, target_coords) ==
    LET source_node == find_closest_node(G, source_coords)
        target_node == find_closest_node(G, target_coords)
    IN  IF source_node = target_node THEN <<source_coords>>
        ELSE IF shortest_path_length(G, source_node, target_node) = INF
        THEN <<source_coords, target_coords>>
        ELSE LET path == shortest_path_within(G, source_node, target_node, G.nodes - 1)
             IN  [k \in 1..Len(path) |-> NodeXY(path[k])]

---------------------------------------------------------------------------
(* point_snapper.py: snapping *)

\* nearest_points(point, edge_geom)[1] for the straight edge (u, v)
nearest_on_edge(point, u, v) ==
    LET lo == IF NodeXY(u)[1] <= NodeXY(v)[1] THEN NodeXY(u)[1] ELSE NodeXY(v)[1]
        hi == IF NodeXY(u)[1] <= NodeXY(v)[1] THEN NodeXY(v)[1] ELSE NodeXY(u)[1]
    IN  <<IF point[1] < lo THEN lo ELSE IF point[1] > hi THEN hi ELSE point[1], 0>>

RECURSIVE nearest_edge_loop(_, _, _, _)
\* for u, v, key, data in G.edges(keys=True, data=True): the edges in the
\* order of their first node, then of their second; idx counts the pairs
nearest_edge_loop(point, G, idx, acc) ==
    IF idx >= G.nodes * G.nodes THEN acc
    ELSE LET u == (idx \div G.nodes) + 1
             v == (idx % G.nodes) + 1
         IN  IF <<u, v>> \notin G.edges THEN nearest_edge_loop(point, G, idx + 1, acc)
             ELSE LET on_edge == nearest_on_edge(point, u, v)
                      dist == SqDistance(point, on_edge)
                  IN  nearest_edge_loop(point, G, idx + 1,
                          IF dist < acc.min_dist
                          THEN [min_dist |-> dist, nearest_edge |-> <<u, v>>,
                                snapped_point |-> on_edge]
                          ELSE acc)

\* the loop of find_nearest_edge; nearest_edge is <<>> (None) when the graph
\* has no edge, and the return statement then raises TypeError
find_nearest_edge(point, G) ==
    nearest_edge_loop(point, G, 0,
        [min_dist |-> INF, nearest_edge |-> <<>>, snapped_point |-> <<>>])

\* the variant the source leaves out: the first point becomes a virtual node
\* that splits its nearest edge
snap_points_to_network_split(points_df, G) ==
    LET found == [k \in 1..Len(points_df) |->
                     find_nearest_edge(<<points_df[k].X, points_df[k].Y>>, G)]
        virtual == G.nodes + 1
    IN  IF \E k \in 1..Len(points_df) : found[k].nearest_edge = <<>>
        THEN [status |-> "TypeError", snapped_points |-> <<>>, graph |-> G]
        ELSE [status |-> "ok",
              snapped_points |->
                  [k \in 1..Len(points_df) |->
                      [id |-> points_df[k].id,
                       original_coords  |-> <<points_df[k].X, points_df[k].Y>>,
                       snapped_coords   |-> found[k].snapped_point,
                       nearest_edge     |-> found[k].nearest_edge,
                       distance_to_edge |-> found[k].min_dist]],
              graph |->
                  IF Len(points_df) = 0 THEN G
                  ELSE [G EXCEPT !.nodes = virtual,
                                 !.edges = (@ \ {found[1].nearest_edge}) \cup
                                     {<<found[1].nearest_edge[1], virtual>>,
                                      <<virtual, found[1].nearest_edge[2]>>}]]

\* [status, snapped_points, graph]; graph is G_modified = G.copy()
snap_points_to_network(points_df, G) ==
    LET found == [k \in 1..Len(points_df) |->
                     find_nearest_edge(<<points_df[k].X, points_df[k].Y>>, G)]
    IN  IF \E k \in 1..Len(points_df) : found[k].nearest_edge = <<>>
        THEN [status |-> "TypeError", snapped_points |-> <<>>, graph |-> G]
        ELSE [status |-> "ok",
              snapped_points |->
                  [k \in 1..Len(points_df) |->
                      [id |-> points_df[k].id,
                       original_coords  |-> <<points_df[k].X, points_df[k].Y>>,
                       snapped_coords   |-> found[k].snapped_point,
                       nearest_edge     |-> found[k].nearest_edge,
                       distance_to_edge |-> found[k].min_dist]],
              graph |-> G]

---------------------------------------------------------------------------
(* tsp_bruteforce.py: the path of a tour *)

\* point_coords[pid]: the snapped coordinates of the last point with this id
point_coords(snapped_points, pid) ==
    snapped_points[CHOOSE k \in 1..Len(snapped_points) :
                       /\ snapped_points[k].id = pid
                       /\ \A m \in 1..Len(snapped_points) :
                              snapped_points[m].id = pid => m <= k].snapped_coords

RECURSIVE tour_path_loop(_, _, _, _, _)
\* for i in range(len(tour_point_ids)), from i, with all_coords so far
tour_path_loop(G, tour_point_ids, snapped_points, i, all_coords) ==
    IF i >= Len(tour_point_ids) THEN all_coords
    ELSE LET current_id == tour_point_ids[i + 1]
             next_id    == tour_point_ids[((i + 1) % Len(tour_point_ids)) + 1]
             path_coords == get_shortest_path_coords(G,
                                point_coords(snapped_points, current_id),
                                point_coords(snapped_points, next_id))
         IN  tour_path_loop(G, tour_point_ids, snapped_points, i + 1,
                 IF i = 0 THEN all_coords \o path_coords
                 ELSE all_coords \o Tail(path_coords))

\* the 'coordinates' of the LineString
generate_tour_path_geojson(G, tour_point_ids, snapped_points) ==
    IF Len(tour_point_ids) = 0 THEN <<>>
    ELSE tour_path_loop(G, tour_point_ids, snapped_points, 0, <<>>)

---------------------------------------------------------------------------
(* The pipeline on one graph and one points file: snap the points, build   *)
(* the matrix, lay out the path of a tour.                                 *)

\* the directed pairs of neighbouring nodes
LinePairs(n) == {e \in (1..n) \X (1..n) : e[1] - e[2] = 1 \/ e[2] - e[1] = 1}

\* where a row's point may lie: over the first node, between the first two
\* nodes, over the last node
PointXs(n) == {0, 1, NodeXY(IF n >= 1 THEN n ELSE 1)[1]}

\* rows whose ids are distinct and whose X is xs[k]; Y is one off the line
RowsOf(xs) == [k \in 1..Len(xs) |-> [id |-> PointId(k - 1), X |-> xs[k], Y |-> 1]]

SolversIdle ==
    /\ distance_matrix = <<>>
    /\ point_ids = <<>>
    /\ bf = NotRun
    /\ hk = NotRun
    /\ gr = NotRun
    /\ bf_stats = NoStats
    /\ hk_stats = NoStats
    /\ gr_stats = NoStats

InitGraph ==
    /\ SolversIdle
    /\ \E n \in 0..MaxNodes : \E edges \in SUBSET LinePairs(n) :
          \E rows \in 0..MaxRows : \E xs \in [1..rows -> PointXs(n)] :
              /\ network_cache = [graph |-> [file |-> 1, nodes |-> n, edges |-> edges]]
              /\ points_file = RowsOf(xs)
    /\ points_cache = EmptyCache
    /\ pending = {}
    /\ response = NoResponse
    /\ written_by = EmptyCache
    /\ next_request = 1

\* api/points.py, the except clauses of snap_points: a ValueError is answered
\* with 400, every other exception with 500
snap_points_status_code(exception) == IF exception = "ValueError" THEN 400 ELSE 500

\* snapped_points, G_modified = snap_points_to_network(points_df, G)
SnapToNetwork ==
    /\ points_cache = EmptyCache
    /\ LET r == snap_points_to_network(points_file, network_cache.graph)
       IN  IF r.status = "ok"
           THEN /\ points_cache' = [points |-> r.snapped_points, graph |-> r.graph]
                /\ response' = [kind |-> "snapped"]
           ELSE /\ points_cache' = points_cache
                /\ response' = [kind |-> r.status,
                                status_code |-> snap_points_status_code(r.status)]
    /\ UNCHANGED <<solver_vars, network_cache, points_file, pending, written_by,
                   next_request>>

\* distance_matrix, point_ids = build_distance_matrix(G_modified, snapped_points)
BuildMatrix ==
    /\ points_cache # EmptyCache
    /\ LET r == build_distance_matrix(points_cache.graph, points_cache.points)
       IN  /\ distance_matrix' = r.distance_matrix
           /\ point_ids' = r.point_ids
           /\ response' = [kind |-> IF r.status = "ok" THEN "matrix" ELSE r.status]
    /\ UNCHANGED <<bf, hk, gr, bf_stats, hk_stats, gr_stats, network_cache,
                   points_cache, points_file, pending, written_by, next_request>>

\* generate_tour_path_geojson(G_modified, tour, snapped_points) for the tour
\* that visits the points in file order, or in the reverse of it
MaterializePath ==
    /\ points_cache # EmptyCache
    /\ LET ids == [k \in 1..Len(points_cache.points) |-> points_cache.points[k].id]
       IN  \E tour \in {ids, Reverse(ids)} :
               response' = [kind |-> "path", tour |-> tour,
                            coordinates |-> generate_tour_path_geojson(
                                points_cache.graph, tour, points_cache.points)]
    /\ UNCHANGED <<solver_vars, network_cache, points_cache, points_file, pending,
                   written_by, next_request>>

NextGraph == SnapToNetwork \/ BuildMatrix \/ MaterializePath

SpecGraph == InitGraph /\ [][NextGraph]_vars

---------------------------------------------------------------------------
(* Properties of the matrix and of the path *)

\* the node nearest to coords, the first such in node order
NearestNode(G, coords) ==
    Least({k \in 1..G.nodes :
              \A m \in 1..G.nodes : SqDistance(coords, NodeXY(k)) <= SqDistance(coords, NodeXY(m))})

RECURSIVE ReachableFrom(_, _)
\* the nodes that directed paths lead to from the nodes of S
ReachableFrom(G, S) ==
    LET more == S \cup {w \in 1..G.nodes : \E u \in S : <<u, w>> \in G.edges}
    IN  IF more = S THEN S ELSE ReachableFrom(G, more)

\* the oracle finds no path from the point at position a to the one at b
NoPathBetween(a, b) ==
    LET G == points_cache.graph
        from == NearestNode(G, points_cache.points[a].snapped_coords)
        to   == NearestNode(G, points_cache.points[b].snapped_coords)
    IN  to \notin ReachableFrom(G, {from})

\* a matrix has been built from the cached points
MatrixBuilt == points_cache # EmptyCache /\ distance_matrix # <<>>

\* C11: the matrix build_distance_matrix returns for n >= 1 snapped points
\* is n x n with a zero diagonal, symmetric and non-negative, holds +inf at
\* (i, j) exactly when the oracle finds no path for the pair (min(i, j),
\* max(i, j)), and point_ids lists the ids in input order.
C11_MatrixShape ==
    /\ (points_cache # EmptyCache /\ response.kind = "matrix") => MatrixBuilt
    /\ MatrixBuilt =>
        LET n == Len(points_cache.points)
        IN  /\ n >= 1
            /\ DOMAIN distance_matrix = 0..(n - 1)
            /\ point_ids = [k \in 1..n |-> points_file[k].id]
            /\ \A i \in 0..(n - 1) :
                  /\ DOMAIN distance_matrix[i] = 0..(n - 1)
                  /\ distance_matrix[i][i] = 0
                  /\ \A j \in 0..(n - 1) :
                        /\ distance_matrix[i][j] = distance_matrix[j][i]
                        /\ distance_matrix[i][j] >= 0
                        /\ i < j => (distance_matrix[i][j] = INF <=> NoPathBetween(i + 1, j + 1))

\* a matrix of three or more points over a graph with a one-way edge, with
\* an infinite entry and a finite positive one
C11_Witness ==
    /\ MatrixBuilt
    /\ Len(point_ids) >= 3
    /\ \E e \in points_cache.graph.edges : <<e[2], e[1]>> \notin points_cache.graph.edges
    /\ \E i, j \in 0..(Len(point_ids) - 1) : distance_matrix[i][j] = INF
    /\ \E i, j \in 0..(Len(point_ids) - 1) :
          distance_matrix[i][j] > 0 /\ distance_matrix[i][j] < INF

\* every node of the graph is reachable from every other
StronglyConnected(G) == \A u \in 1..G.nodes : ReachableFrom(G, {u}) = 1..G.nodes

\* C12: for a tour of n >= 1 snapped points on a connected graph, the
\* polyline of generate_tour_path_geojson ends at the coordinate it starts
\* at, also when consecutive tour points have the same nearest node.
C12_PathIsClosed ==
    (/\ response.kind = "path"
     /\ Len(response.tour) >= 1
     /\ StronglyConnected(points_cache.graph)) =>
        /\ Len(response.coordinates) >= 1
        /\ response.coordinates[1] = response.coordinates[Len(response.coordinates)]

\* C18: snap_points_to_network leaves the input graph as it was, and the graph
\* it returns has the nodes and the edges of the input graph: no virtual node
\* is added and no edge is split.
C18_GraphUnchanged ==
    points_cache # EmptyCache =>
        /\ points_cache.graph.nodes = network_cache.graph.nodes
        /\ points_cache.graph.edges = network_cache.graph.edges
        /\ \A k \in 1..Len(points_cache.points) :
               points_cache.points[k].nearest_edge \in network_cache.graph.edges

C18_Witness ==
    /\ points_cache # EmptyCache
    /\ Len(points_cache.points) >= 2
    /\ Cardinality(network_cache.graph.edges) >= 2
    /\ \E k \in 1..Len(points_cache.points) :
           points_cache.points[k].snapped_coords # NodeXY(1)
                /\ points_cache.points[k].snapped_coords[1] < NodeXY(2)[1]

\* C17: snapping a non-empty list of points against a graph without edges
\* fails with the EmptyGraph kind, which is a client error distinct from
\* Internal (500), and produces no snapped points.
C17_EmptyGraphKind ==
    (/\ response.kind \notin {"none", "snapped", "matrix", "path"}
     /\ network_cache.graph.edges = {}
     /\ Len(points_file) >= 1) =>
        /\ response.kind = "EmptyGraph"
        /\ response.status_code # 500
        /\ points_cache = EmptyCache

(***************************************************************************)
(* core/point_snapper.py: load_points_from_bytes.                          *)
(*                                                                         *)
(* An uploaded points file is a header line and data lines.  A line is a   *)
(* record [fields, seps]: the text between two separator characters, and   *)
(* the separator characters (comma or tab) in between, left to right.      *)
(* A column name read by pandas is the sequence of the fields that the     *)
(* chosen delimiter does not split; <<"X">> is the plain name X.  Data     *)
(* lines carry the separators of the header line.                          *)
(***************************************************************************)
MaxColumns == 4
MaxLines == 2

Comma == ","
Tab == "\t"

\* str.lower() on the names that occur in the uploads.
lower(c) ==
    CASE c = "ID" -> "id"
      [] c = "Id" -> "id"
      [] c = "X" -> "x"
      [] c = "Y" -> "y"
      [] OTHER -> c

lower_name(name) == [k \in 1..Len(name) |-> lower(name[k])]

RECURSIVE split_loop(_, _, _, _, _, _)
split_loop(fields, seps, delimiter, k, current, out) ==
    IF k > Len(fields) THEN out
    ELSE LET grown == Append(current, fields[k])
         IN  IF k = Len(fields) THEN Append(out, grown)
             ELSE IF seps[k] = delimiter
                  THEN split_loop(fields, seps, delimiter, k + 1, <<>>, Append(out, grown))
                  ELSE split_loop(fields, seps, delimiter, k + 1, grown, out)

\* pd.read_csv splits every line at the delimiter.
split(line, delimiter) == split_loop(line.fields, line.seps, delimiter, 1, <<>>, <<>>)

\* content.split('\n')[0] contains a comma: the delimiter becomes the comma.
detect_delimiter(header) ==
    IF \E k \in 1..Len(header.seps) : header.seps[k] = Comma THEN Comma ELSE Tab

required_cols == {<<"X">>, <<"Y">>, <<"id">>}

\* df.rename(columns = lower), then df.rename(columns = {'x': 'X', 'y': 'Y'}).
standard_name(name) ==
    LET low == lower_name(name)
    IN  IF low = <<"x">> THEN <<"X">> ELSE IF low = <<"y">> THEN <<"Y">> ELSE low

\* A cell of one field is its value; pandas keeps any other cell as text.
cell(field) == IF Len(field) = 1 THEN field[1] ELSE field

column_of(columns, name) == CHOOSE k \in 1..Len(columns) : columns[k] = name

load_points_from_bytes(file_bytes) ==
    LET delimiter == detect_delimiter(file_bytes.header)
        columns == split(file_bytes.header, delimiter)
        found == {columns[k] : k \in 1..Len(columns)}
        lowered == [k \in 1..Len(columns) |-> lower_name(columns[k])]
        retry == {lower_name(c) : c \in {<<"X">>, <<"Y">>, <<"id">>}}
    IN  IF ~(required_cols \subseteq found) /\ ~(required_cols \subseteq retry)
        THEN [status |-> "ValueError", rows |-> <<>>]
        ELSE LET used == IF required_cols \subseteq found THEN columns ELSE lowered
                 names == [k \in 1..Len(used) |-> standard_name(used[k])]
                 has(name) == \E k \in 1..Len(names) : names[k] = name
             IN  IF ~(has(<<"id">>) /\ has(<<"X">>) /\ has(<<"Y">>))
                 THEN [status |-> "KeyError", rows |-> <<>>]
                 ELSE [status |-> "ok",
                       rows |-> [r \in 1..Len(file_bytes.lines) |->
                           LET cells == split([fields |-> file_bytes.lines[r],
                                               seps |-> file_bytes.header.seps], delimiter)
                           IN  [id |-> cell(cells[column_of(names, <<"id">>)]),
                                X |-> cell(cells[column_of(names, <<"X">>)]),
                                Y |-> cell(cells[column_of(names, <<"Y">>)])]]]

(***************************************************************************)
(* Uploads for the parser: the header names of a file differ in lower      *)
(* case, every separator is a comma or a tab, and the cell of line r under *)
(* header field k holds 10 * r + k.                                        *)
(***************************************************************************)
ColumnNames == {"id", "ID", "Id", "x", "X", "y", "Y", "name"}

Headers ==
    UNION {{h \in [1..n -> ColumnNames] :
              \A a, b \in 1..n : a # b => lower(h[a]) # lower(h[b])} : n \in 1..MaxColumns}

LinesOf(n, m) == [r \in 1..m |-> [k \in 1..n |-> 10 * r + k]]

InitPoints ==
    /\ \E h \in Headers : \E seps \in [1..(Len(h) - 1) -> {Comma, Tab}] :
       \E m \in 1..MaxLines :
           points_file = [header |-> [fields |-> h, seps |-> seps],
                          lines |-> LinesOf(Len(h), m)]
    /\ distance_matrix = <<>>
    /\ point_ids = <<>>
    /\ SolversIdle
    /\ network_cache = EmptyCache
    /\ points_cache = EmptyCache
    /\ pending = {}
    /\ response = NoResponse
    /\ written_by = EmptyCache
    /\ next_request = 1

ParsePoints ==
    /\ response = NoResponse
    /\ LET df == load_points_from_bytes(points_file)
       IN  response' = [kind |-> "points", status |-> df.status, rows |-> df.rows]
    /\ UNCHANGED <<solver_vars, network_cache, points_cache, points_file,
                   pending, written_by, next_request>>

NextPoints == ParsePoints

SpecPoints == InitPoints /\ [][NextPoints]_vars

\* The position of the column whose name is `name` in any letter case, in a
\* header split at `delimiter`; 0 when there is none.
ColumnIgnoringCase(header, delimiter, name) ==
    LET columns == split(header, delimiter)
        hits == {k \in 1..Len(columns) : lower_name(columns[k]) = <<name>>}
    IN  IF hits = {} THEN 0 ELSE CHOOSE k \in hits : TRUE

\* C16: load_points_from_bytes accepts a header that names id, X and Y in
\* any order and any letter case, splits at the comma when the header line
\* holds one and at the tab otherwise, returns the rows as (id, X, Y), and
\* fails only when one of the three columns is missing.
C16_HeaderAnyCase ==
    response.kind = "points" =>
        LET header == points_file.header
            delimiter == IF \E k \in 1..Len(header.seps) : header.seps[k] = Comma
                         THEN Comma ELSE Tab
            i == ColumnIgnoringCase(header, delimiter, "id")
            x == ColumnIgnoringCase(header, delimiter, "x")
            y == ColumnIgnoringCase(header, delimiter, "y")
        IN  IF i = 0 \/ x = 0 \/ y = 0
            THEN response.status = "ValueError"
            ELSE /\ response.status = "ok"
                 /\ Len(response.rows) = Len(points_file.lines)
                 /\ \A r \in 1..Len(response.rows) :
                        LET cells == split([fields |-> points_file.lines[r],
                                            seps |-> header.seps], delimiter)
                        IN  response.rows[r] =
                                [id |-> cells[i][1], X |-> cells[x][1], Y |-> cells[y][1]]

\* A header with the exact names id, X and Y is parsed, whatever the order.
ExactHeaderParsed ==
    /\ response.kind = "points"
    /\ response.status = "ok"
    /\ points_file.header.fields[1] = "Y"
    /\ response.rows[1].Y = 11

(***************************************************************************)
(* api/network.py, api/points.py, api/tsp.py: the request handlers and the *)
(* two module-level caches they share.                                     *)
(*                                                                         *)
(* A handler runs without interruption except at an await.  load_network   *)
(* awaits the upload before it reads or writes anything, so it is one      *)
(* step.  snap_points reads the cached graph, awaits the upload, and then  *)
(* parses, snaps and writes the cache: two steps, with the graph it read   *)
(* kept in `pending` in between.  The solve handlers hold no await.        *)
(***************************************************************************)
MaxRequests == 4
MaxSessionRows == 2

MAX_BRUTEFORCE_POINTS == 12
MAX_HELDKARP_POINTS == 20

\* warning_message = None
NoWarning == <<>>

\* key in cache
has_key(cache, key) == key \in DOMAIN cache

\* process_network(file_content): upload 1 is a street open in both
\* directions, upload 2 the same street open in one direction only
process_network(file_content) ==
    [file  |-> file_content,
     nodes |-> 2,
     edges |-> IF file_content = 1 THEN {<<1, 2>>, <<2, 1>>} ELSE {<<1, 2>>}]

\* the osm uploads; upload 0 has no bytes, upload 3 is not an osm file
NetworkFiles == 0..3

\* load_network that empties the cache before it processes the upload
load_network_clearing(cache, file_content) ==
    IF file_content = 0
    THEN [status_code |-> 500, exception |-> "HTTPException", cache |-> EmptyCache]
    ELSE IF file_content = 3
    THEN [status_code |-> 500, exception |-> "Exception", cache |-> EmptyCache]
    ELSE [status_code |-> 200, exception |-> "none",
          cache |-> [graph |-> process_network(file_content)]]

\* load_network after its await: [status_code, cache]
load_network(cache, file_content) ==
    IF file_content = 0
    THEN [status_code |-> 500, exception |-> "HTTPException", cache |-> cache]
    ELSE IF file_content = 3
    THEN [status_code |-> 500, exception |-> "Exception", cache |-> cache]
    ELSE [status_code |-> 200, exception |-> "none",
          cache |-> [graph |-> process_network(file_content)]]

\* the points uploads: no bytes, a header in lower case, and well-formed
\* files of m rows that lie in turn over the second and over the first node
EmptyUpload == [header |-> [fields |-> <<>>, seps |-> <<>>], lines |-> <<>>]

PointsUpload(header, m) ==
    [header |-> [fields |-> header, seps |-> <<Tab, Tab>>],
     lines  |-> [k \in 1..m |-> <<PointId(k - 1), IF k % 2 = 1 THEN 3 ELSE 0, 1>>]]

RowCounts == 0..MaxSessionRows

PointsFiles ==
    {EmptyUpload, PointsUpload(<<"id", "x", "y">>, 1)}
        \cup {PointsUpload(<<"id", "X", "Y">>, m) : m \in RowCounts}

\* len(file_content)
file_length(file_content) == Len(file_content.header.fields)

\* the two assignments with the second one lost when a graph is cached
\* already: the graph of the previous snap stays in the cache
cache_snapped_points_first(cache, snapped_points_list, G_modified) ==
    [points |-> snapped_points_list,
     graph  |-> IF has_key(cache, "graph") THEN cache.graph ELSE G_modified]

\* _points_cache['points'] = ...; _points_cache['graph'] = ... with no await
\* in between
cache_snapped(cache, snapped_points_list, G_modified) ==
    [points |-> snapped_points_list, graph |-> G_modified]

\* snap_points after its await, G being the graph read before it
snap_points(G, file_content) ==
    IF file_length(file_content) = 0
    THEN [status_code |-> snap_points_status_code("HTTPException"),
          exception |-> "HTTPException", points |-> <<>>, graph |-> G]
    ELSE LET points_df == load_points_from_bytes(file_content)
         IN  IF points_df.status # "ok"
             THEN [status_code |-> snap_points_status_code(points_df.status),
                   exception |-> points_df.status, points |-> <<>>, graph |-> G]
             ELSE LET r == snap_points_to_network(points_df.rows, G)
                  IN  IF r.status # "ok"
                      THEN [status_code |-> snap_points_status_code(r.status),
                            exception |-> r.status, points |-> <<>>, graph |-> G]
                      ELSE [status_code |-> 200, exception |-> "none",
                            points |-> r.snapped_points, graph |-> r.graph]

\* the except clauses of the solve handlers
solve_status_code(exception) == IF exception = "ValueError" THEN 400 ELSE 500

\* the Python exception behind a status of the core functions
exception_of(status) ==
    IF status \in {"EmptyInput", "Disconnected", "SizeExceeded", "NoNodes", "NoUnvisited"}
    THEN "ValueError" ELSE status

solve_failure(exception, detail, cache) ==
    [status_code |-> solve_status_code(exception), exception |-> exception,
     detail |-> detail, used |-> <<>>, warning |-> NoWarning, tour |-> NoTour,
     length |-> 0, searched |-> FALSE, cache |-> cache]

\* the auto-subset cutting at cap points already when the list holds cap points
subset_points_inclusive(snapped_points, cap) ==
    LET original_count == Len(snapped_points)
    IN  IF cap > 0 /\ original_count >= cap
        THEN [used    |-> SubSeq(snapped_points, 1, cap),
              cached  |-> snapped_points,
              warning |-> [used |-> cap, out_of |-> original_count,
                           ignored_from |-> cap + 1, ignored_to |-> original_count]]
        ELSE [used |-> snapped_points, cached |-> snapped_points, warning |-> NoWarning]

\* the auto-subset done with `del snapped_points[cap:]`: the cached list
\* itself is cut
subset_points_in_place(snapped_points, cap) ==
    LET original_count == Len(snapped_points)
    IN  IF cap > 0 /\ original_count > cap
        THEN [used    |-> SubSeq(snapped_points, 1, cap),
              cached  |-> SubSeq(snapped_points, 1, cap),
              warning |-> [used |-> cap, out_of |-> original_count,
                           ignored_from |-> cap + 1, ignored_to |-> original_count]]
        ELSE [used |-> snapped_points, cached |-> snapped_points, warning |-> NoWarning]

\* the auto-subset of solve_bruteforce and solve_heldkarp; cap = 0 is the
\* heuristic, which has none.  The slice is a new list: the cached list stays.
subset_points(snapped_points, cap) ==
    LET original_count == Len(snapped_points)
    IN  IF cap > 0 /\ original_count > cap
        THEN [used    |-> SubSeq(snapped_points, 1, cap),
              cached  |-> snapped_points,
              warning |-> [used |-> cap, out_of |-> original_count,
                           ignored_from |-> cap + 1, ignored_to |-> original_count]]
        ELSE [used |-> snapped_points, cached |-> snapped_points, warning |-> NoWarning]

\* the branch a solver takes on (D, ids)
solver_precheck(algorithm, D, ids) ==
    IF algorithm = "bruteforce" THEN bruteforce_precheck(D, ids)
    ELSE IF algorithm = "heldkarp" THEN heldkarp_precheck(D, ids)
    ELSE greedy_precheck(D, ids)

\* tour_ids, tour_length, ... = solve_tsp_...(distance_matrix, point_ids)
call_solver(algorithm, D, ids) ==
    IF algorithm = "bruteforce" THEN solve_tsp_bruteforce(D, ids)
    ELSE IF algorithm = "heldkarp" THEN solve_tsp_heldkarp(D, ids)
    ELSE solve_tsp_greedy_with_2opt(D, ids, MAX_ITERATIONS)

\* what a handler keeps of the solver's result
searched_result(r) ==
    [status |-> r.status, tour |-> r.tour, length |-> r.length, searched |-> TRUE]

\* the result of a solver of which only the branch it takes is evaluated
branch_result(pre) ==
    [status |-> IF pre = "search" THEN "ok" ELSE pre,
     tour |-> NoTour, length |-> 0, searched |-> FALSE]

\* the solver call of a handler.  The search is evaluated for at most MaxN
\* points; for a longer list the result keeps the branch the solver takes.
run_solver(algorithm, D, ids) ==
    IF Len(ids) <= MaxN
    THEN searched_result(call_solver(algorithm, D, ids))
    ELSE branch_result(solver_precheck(algorithm, D, ids))

\* the handler from the solver call on: r is what the solver returned
solve_result(after, sub, m, r) ==
    IF r.status # "ok"
    THEN solve_failure(exception_of(r.status), r.status, after)
    ELSE [status_code |-> 200, exception |-> "none", detail |-> "none",
          used |-> m.point_ids, warning |-> sub.warning,
          tour |-> r.tour, length |-> r.length,
          searched |-> r.searched, cache |-> after]

\* the handler from the validation of the matrix on: m is what
\* build_distance_matrix returned
solve_matrix(after, algorithm, sub, m) ==
    IF m.status # "ok"
    THEN solve_failure(exception_of(m.status), m.status, after)
    ELSE IF any_isinf(m.distance_matrix, Len(m.point_ids))
    THEN solve_failure("HTTPException", "Some points are not reachable", after)
    ELSE solve_result(after, sub, m,
                      run_solver(algorithm, m.distance_matrix, m.point_ids))

\* the handler from the auto-subset on: sub is the list used and the list
\* left in the cache
solve_subset(cache, algorithm, sub) ==
    solve_matrix([cache EXCEPT !.points = sub.cached], algorithm, sub,
                 build_distance_matrix(cache.graph, sub.used))

\* solve_bruteforce (cap 12), solve_heldkarp (cap 20), solve_heuristic (cap 0)
solve(cache, algorithm, cap) ==
    IF ~has_key(cache, "graph") \/ ~has_key(cache, "points")
    THEN solve_failure("HTTPException", "No points loaded", cache)
    ELSE IF Len(cache.points) = 0
    THEN solve_failure("HTTPException", "No points available", cache)
    ELSE solve_subset(cache, algorithm, subset_points(cache.points, cap))

InitSession ==
    /\ SolversIdle
    /\ SessionAtStart

LoadNetwork ==
    /\ next_request <= MaxRequests
    /\ \E file_content \in NetworkFiles :
           LET r == load_network(network_cache, file_content)
           IN  /\ network_cache' = r.cache
               /\ response' = [kind |-> "http", request |-> next_request, op |-> "load",
                               status_code |-> r.status_code]
    /\ next_request' = next_request + 1
    /\ UNCHANGED <<solver_vars, points_cache, points_file, pending, written_by>>

\* G = get_cached_graph(); file_content = await points_file.read()
SnapBegin ==
    /\ next_request <= MaxRequests
    /\ IF ~has_key(network_cache, "graph")
       THEN /\ response' = [kind |-> "http", request |-> next_request, op |-> "snap",
                            status_code |-> snap_points_status_code("HTTPException")]
            /\ pending' = pending
       ELSE /\ \E file_content \in PointsFiles :
                   pending' = pending \cup {[request |-> next_request,
                                             G |-> network_cache.graph,
                                             file_content |-> file_content]}
            /\ response' = response
    /\ next_request' = next_request + 1
    /\ UNCHANGED <<solver_vars, network_cache, points_cache, points_file, written_by>>

SnapFinish ==
    /\ \E p \in pending :
           LET r == snap_points(p.G, p.file_content)
           IN  /\ pending' = pending \ {p}
               /\ response' = [kind |-> "http", request |-> p.request, op |-> "snap",
                               status_code |-> r.status_code]
               /\ IF r.status_code = 200
                  THEN /\ points_cache' = cache_snapped(points_cache, r.points, r.graph)
                       /\ written_by' = cache_snapped(written_by, p.request, p.request)
                  ELSE UNCHANGED <<points_cache, written_by>>
    /\ UNCHANGED <<solver_vars, network_cache, points_file, next_request>>

\* the response of a solve request, with the requests that wrote what it read
Solve(algorithm, cap) ==
    /\ next_request <= MaxRequests
    /\ LET r == solve(points_cache, algorithm, cap)
       IN  /\ response' = [kind |-> "http", request |-> next_request, op |-> algorithm,
                           status_code |-> r.status_code, exception |-> r.exception,
                           detail |-> r.detail, used |-> r.used, warning |-> r.warning,
                           tour |-> r.tour, length |-> r.length, searched |-> r.searched,
                           graph |-> IF has_key(points_cache, "graph")
                                     THEN points_cache.graph ELSE <<>>,
                           read |-> written_by]
           /\ points_cache' = r.cache
    /\ next_request' = next_request + 1
    /\ UNCHANGED <<solver_vars, network_cache, points_file, pending, written_by>>

SolveBruteforce == Solve("bruteforce", MAX_BRUTEFORCE_POINTS)

SolveHeldkarp == Solve("heldkarp", MAX_HELDKARP_POINTS)

SolveHeuristic == Solve("heuristic", 0)

NextSession ==
    \/ LoadNetwork
    \/ SnapBegin
    \/ SnapFinish
    \/ SolveBruteforce
    \/ SolveHeldkarp
    \/ SolveHeuristic

SpecSession == InitSession /\ [][NextSession]_vars

(***************************************************************************)
(* The solve handlers on every length of the cached list: the session      *)
(* after one load_network and, unless no points were snapped yet, one      *)
(* snap_points of a well-formed upload of up to MaxPoints rows.            *)
(***************************************************************************)
InitSolve ==
    /\ SolversIdle
    /\ points_file = <<>>
    /\ pending = {}
    /\ response = NoResponse
    /\ next_request = MaxRequests - 1
    /\ \E file_content \in {1, 2} :
           /\ network_cache = load_network(EmptyCache, file_content).cache
           /\ \/ /\ points_cache = EmptyCache
                 /\ written_by = EmptyCache
              \/ \E m \in 0..MaxPoints :
                     LET r == snap_points(network_cache.graph,
                                          PointsUpload(<<"id", "X", "Y">>, m))
                     IN  /\ points_cache = cache_snapped(EmptyCache, r.points, r.graph)
                         /\ written_by = cache_snapped(EmptyCache, 2, 2)

NextSolve == SolveBruteforce \/ SolveHeldkarp \/ SolveHeuristic

SpecSolve == InitSolve /\ [][NextSolve]_vars

Solves == {"bruteforce", "heldkarp", "heuristic"}

---------------------------------------------------------------------------
(* Properties of the request handlers *)

\* the identifiers of the cached points, in cached order
CachedIds == [k \in 1..Len(points_cache.points) |-> points_cache.points[k].id]

CapOf(op) ==
    IF op = "bruteforce" THEN MAX_BRUTEFORCE_POINTS
    ELSE IF op = "heldkarp" THEN MAX_HELDKARP_POINTS
    ELSE 0

C15_ClientErrorKinds ==
    (/\ response.kind # "none"
     /\ response.op \in Solves
     /\ \/ ~has_key(points_cache, "points")
        \/ Len(points_cache.points) = 0
        \/ response.detail = "Some points are not reachable") =>
            response.status_code = 400

\* C20: a solve request only reads the session: the cached network, the
\* cached points list (its length too, when the solve cut its own copy) and
\* the cached graph are the same after it.
C20_SolveOnlyReads ==
    [][response'.kind # "none" /\ response'.op \in Solves /\ response'.request = next_request
           => /\ network_cache' = network_cache
              /\ points_cache' = points_cache]_vars

C20_Witness ==
    /\ response.kind # "none"
    /\ response.op = "heldkarp"
    /\ response.status_code = 200
    /\ response.warning # NoWarning
    /\ Len(response.used) = MAX_HELDKARP_POINTS
    /\ Len(points_cache.points) > MAX_HELDKARP_POINTS

\* C14: once load_network has replaced the cached network, no later solve
\* uses points or a graph derived from the network before it: a solve that
\* succeeds ran on the network cached when it ran.
C14_NoStalePoints ==
    [][(/\ response'.kind # "none"
        /\ response'.op \in Solves
        /\ response'.request = next_request
        /\ response'.status_code = 200)
           => response'.graph = network_cache.graph]_vars

\* C19: under every interleaving of load_network, snap_points and solve at
\* their awaits, a solve reads a points list and a graph that one and the same
\* snap_points request wrote together.
C19_SolveReadsOneSnap ==
    (/\ response.kind # "none"
     /\ response.op \in Solves
     /\ response.status_code = 200) =>
        /\ has_key(response.read, "points")
        /\ has_key(response.read, "graph")
        /\ response.read.points = response.read.graph

C19_Witness ==
    /\ response.kind # "none"
    /\ response.op \in Solves
    /\ response.status_code = 200
    /\ pending # {}
    /\ Len(response.used) >= 2

---------------------------------------------------------------------------
(* The telemetry counters of the exact solvers *)

RECURSIVE Factorial(_)
Factorial(k) == IF k <= 0 THEN 1 ELSE k * Factorial(k - 1)

RECURSIVE Pow2(_)
Pow2(k) == IF k <= 0 THEN 1 ELSE 2 * Pow2(k - 1)

\* C27: whenever solve_tsp_bruteforce returns on n >= 1 points, its
\* permutations_checked is (n - 1)!: 1 for one and for two points, 2 for
\* three, 6 for four.
C27_PermutationsChecked ==
    bf.status = "ok" =>
        /\ bf.permutations_checked = Factorial(Len(point_ids) - 1)
        /\ Len(point_ids) \in {1, 2} => bf.permutations_checked = 1
        /\ Len(point_ids) = 3 => bf.permutations_checked = 2
        /\ Len(point_ids) = 4 => bf.permutations_checked = 6

C27_Witness ==
    /\ bf.status = "ok"
    /\ Len(point_ids) = 4
    /\ bf.permutations_checked = 6
    /\ bf.tour # IdsOf(4)

\* C28: whenever solve_tsp_heldkarp returns on n >= 2 points, its
\* subproblems_solved is 1 + (n - 1) * 2^(n - 2) (2 for two points); on one
\* point it is 1.
C28_SubproblemsSolved ==
    hk.status = "ok" =>
        LET n == Len(point_ids)
        IN  /\ n = 1 => hk.subproblems_solved = 1
            /\ n = 2 => hk.subproblems_solved = 2
            /\ n >= 2 => hk.subproblems_solved = 1 + (n - 1) * Pow2(n - 2)

C28_Witness ==
    /\ hk.status = "ok"
    /\ Len(point_ids) = 4
    /\ hk.subproblems_solved = 13

---------------------------------------------------------------------------
(* The nearest-neighbour construction *)

\* the matrix indices of the tour the greedy phase returned
GreedyIndices == [k \in 1..Len(gr.greedy_tour) |-> id_to_idx(point_ids, gr.greedy_tour[k])]

\* the cities not on the tour before its step k, k = 1..n-1
UnvisitedAt(k) ==
    (0..(Len(point_ids) - 1)) \ {GreedyIndices[m] : m \in 1..k}

\* C26: with n >= 3 and a finite matrix the nearest-neighbour tour starts at
\* index 0, and each of its n - 1 extension steps appends an unvisited city
\* that minimises D[current][j] over the unvisited j, the smallest such index
\* when several do.
C26_NearestNeighborChoice ==
    (gr.status = "ok" /\ Len(point_ids) >= 3 /\ Finite) =>
        /\ Len(GreedyIndices) = Len(point_ids)
        /\ GreedyIndices[1] = 0
        /\ \A k \in 1..(Len(point_ids) - 1) :
              LET current == GreedyIndices[k]
                  chosen  == GreedyIndices[k + 1]
              IN  /\ chosen \in UnvisitedAt(k)
                  /\ \A j \in UnvisitedAt(k) :
                        /\ distance_matrix[current][chosen] <= distance_matrix[current][j]
                        /\ distance_matrix[current][j] = distance_matrix[current][chosen]
                              => chosen <= j

\* a step with a tie: two unvisited cities at the same least distance
C26_Witness ==
    /\ gr.status = "ok"
    /\ Len(point_ids) = 4
    /\ Finite
    /\ \E k \in 1..2 : \E j \in UnvisitedAt(k) :
          /\ j > GreedyIndices[k + 1]
          /\ distance_matrix[GreedyIndices[k]][j] =
                 distance_matrix[GreedyIndices[k]][GreedyIndices[k + 1]]
    /\ \E k \in 1..2 : \E j \in UnvisitedAt(k) :
          /\ j < GreedyIndices[k + 1]
          /\ distance_matrix[GreedyIndices[k]][j] >
                 distance_matrix[GreedyIndices[k]][GreedyIndices[k + 1]]

---------------------------------------------------------------------------
(* The Held-Karp table, filled one state (mask, i) at a time.  hk holds    *)
(* the loop position (the mask being processed and the next city i) and    *)
(* the dictionaries dp and parent; a step is one pass through the body of  *)
(* `for i in range(n)`, or the `continue` of a mask without city 0.        *)

\* range(1, 1 << n) backwards
heldkarp_masks_descending(n) == [k \in 1..(Shl(n) - 1) |-> Shl(n) - k]

\* range(1, 1 << n): the masks in the order the outer loop takes them
heldkarp_masks(n) == [k \in 1..(Shl(n) - 1) |-> k]

\* the position after city i of the mask at position pos
heldkarp_advance(n, pos, i) ==
    IF i + 1 < n
    THEN [pos |-> pos, i |-> i + 1]
    ELSE [pos |-> pos + 1, i |-> 0]

\* the closing loop over the last city and the walk along the parents
heldkarp_close(D, ids, st) ==
    LET n    == Len(ids)
        last == heldkarp_last(D, n, st.dp, 1,
                    [min_tour_length |-> INF, last_city |-> NoCity])
    IN  IF last.last_city = NoCity THEN Raise("Disconnected")
        ELSE [status |-> "ok",
              tour   |-> ToIds(Reverse(heldkarp_walk(st.parent, Shl(n) - 1,
                                                     last.last_city, <<>>)), ids),
              length |-> last.min_tour_length,
              subproblems_solved |-> st.subproblems_solved]

InitDP ==
    /\ \/ \E n \in 0..MaxN : \E w \in [0..(NumWeights - 1) -> Values] :
            /\ distance_matrix = MatrixOf(n, w, FALSE)
            /\ point_ids = IdsOf(n)
       \/ /\ distance_matrix = S2
          /\ point_ids = <<0, 1, 2, 3>>
    /\ bf = NotRun
    /\ hk = NotRun
    /\ gr = NotRun
    /\ bf_stats = NoStats
    /\ hk_stats = NoStats
    /\ gr_stats = NoStats
    /\ SessionAtStart

\* the loop is over when the masks are used up
LoopOver == hk.pos > Len(heldkarp_masks(Len(point_ids)))

\* the checks at the head and the base case
HeldKarpEnter ==
    /\ hk.status = "none"
    /\ hk' = IF heldkarp_precheck(distance_matrix, point_ids) # "search"
             THEN solve_tsp_heldkarp(distance_matrix, point_ids)
             ELSE [status |-> "filling", pos |-> 1, i |-> 0,
                   mask   |-> heldkarp_masks(Len(point_ids))[1],
                   dp     |-> (<<Shl(0), 0>> :> 0),
                   parent |-> (<<Shl(0), 0>> :> NoCity),
                   subproblems_solved |-> 1]
    /\ UNCHANGED <<distance_matrix, point_ids, bf, gr, bf_stats, hk_stats, gr_stats,
                   session_vars>>

\* the loop position pos, i with its mask
Position(at, st) ==
    LET n == Len(point_ids)
    IN  [status |-> "filling", pos |-> at.pos, i |-> at.i,
         mask   |-> IF at.pos > Len(heldkarp_masks(n)) THEN Shl(n)
                    ELSE heldkarp_masks(n)[at.pos],
         dp |-> st.dp, parent |-> st.parent,
         subproblems_solved |-> st.subproblems_solved]

\* if not (mask & (1 << 0)): continue
HeldKarpSkipMask ==
    /\ hk.status = "filling"
    /\ ~LoopOver
    /\ ~BitSet(hk.mask, 0)
    /\ hk' = Position([pos |-> hk.pos + 1, i |-> 0], hk)
    /\ UNCHANGED <<distance_matrix, point_ids, bf, gr, bf_stats, hk_stats, gr_stats,
                   session_vars>>

\* the body of for i in range(n) for the state (mask, i)
HeldKarpState ==
    /\ hk.status = "filling"
    /\ ~LoopOver
    /\ BitSet(hk.mask, 0)
    /\ hk' = Position(heldkarp_advance(Len(point_ids), hk.pos, hk.i),
                      heldkarp_state(distance_matrix, Len(point_ids), hk.mask, hk.i,
                          [dp |-> hk.dp, parent |-> hk.parent,
                           subproblems_solved |-> hk.subproblems_solved]))
    /\ UNCHANGED <<distance_matrix, point_ids, bf, gr, bf_stats, hk_stats, gr_stats,
                   session_vars>>

\* after the loop: the cheapest closing city and the tour
HeldKarpClose ==
    /\ hk.status = "filling"
    /\ LoopOver
    /\ hk' = heldkarp_close(distance_matrix, point_ids, hk)
    /\ UNCHANGED <<distance_matrix, point_ids, bf, gr, bf_stats, hk_stats, gr_stats,
                   session_vars>>

NextDP == HeldKarpEnter \/ HeldKarpSkipMask \/ HeldKarpState \/ HeldKarpClose

SpecDP == InitDP /\ [][NextDP]_vars

\* the stepwise run returns what solve_tsp_heldkarp returns
StepwiseAgrees ==
    hk.status \notin {"none", "filling"} =>
        hk = solve_tsp_heldkarp(distance_matrix, point_ids)

\* the cities of a mask
CitiesOf(mask) == {c \in 0..(Len(point_ids) - 1) : BitSet(mask, c)}

RECURSIVE PathCost(_, _)
\* the cost of a path, edge by edge
PathCost(path, k) ==
    IF k >= Len(path) THEN 0
    ELSE distance_matrix[path[k]][path[k + 1]] + PathCost(path, k + 1)

\* the paths that start at city 0, visit exactly the cities of mask once
\* each, and end at city i
PathsTo(mask, i) == {<<0>> \o p \o <<i>> : p \in Orderings(CitiesOf(mask) \ {0, i})}

MinPathCost(mask, i) ==
    CHOOSE c \in {PathCost(path, 1) : path \in PathsTo(mask, i)} :
        \A path \in PathsTo(mask, i) : c <= PathCost(path, 1)

\* C22: after the loop of solve_tsp_heldkarp (3 <= n, finite matrix) there
\* is a value for every (S, i) with 0 and i in S, i # 0, and it is the least
\* cost of a path from city 0 through exactly the cities of S to i; (S, 0)
\* has a value only for S = {0}, the base case.
C22_TableIsMinimal ==
    (hk.status = "filling" /\ LoopOver) =>
        \A mask \in 1..(Shl(Len(point_ids)) - 1) : \A i \in 0..(Len(point_ids) - 1) :
            IF BitSet(mask, 0) /\ BitSet(mask, i) /\ i # 0
            THEN /\ InTable(hk.dp, mask, i)
                 /\ hk.dp[<<mask, i>>] = MinPathCost(mask, i)
            ELSE IF mask = Shl(0) /\ i = 0
            THEN InTable(hk.dp, mask, i) /\ hk.dp[<<mask, i>>] = 0
            ELSE ~InTable(hk.dp, mask, i)

\* the full table of four cities, where the path in index order is not the
\* cheapest one to city 3
C22_Witness ==
    /\ hk.status = "filling"
    /\ LoopOver
    /\ Len(point_ids) = 4
    /\ InTable(hk.dp, 15, 3)
    /\ hk.dp[<<15, 3>>] < PathCost(<<0, 1, 2, 3>>, 1)
    /\ hk.dp[<<15, 3>>] > 0

\* C23: the masks are taken in increasing numeric order; a step adds at most
\* the state (mask, i) it is at and changes no state filled before; and when
\* (mask, i) is given its value, every predecessor (mask without i, j) that
\* ever holds a value holds it already, no state of a later mask being filled.
C23_FillOrder ==
    [][(hk.status = "filling" /\ hk'.status = "filling") =>
          /\ hk'.mask >= hk.mask
          /\ hk'.mask = hk.mask => hk'.i > hk.i
          /\ \A key \in DOMAIN hk.dp :
                /\ key \in DOMAIN hk'.dp
                /\ hk'.dp[key] = hk.dp[key]
                /\ hk'.parent[key] = hk.parent[key]
          /\ \A key \in DOMAIN hk'.dp : key[1] <= hk.mask
          /\ \A key \in DOMAIN hk'.dp \ DOMAIN hk.dp :
                LET prev_mask == XorBit(hk.mask, hk.i)
                IN  /\ key = <<hk.mask, hk.i>>
                    /\ prev_mask < hk.mask
                    /\ \A j \in CitiesOf(prev_mask) :
                          (j # 0 \/ prev_mask = Shl(0)) => InTable(hk.dp, prev_mask, j)]_vars

\* in the middle of the loop: (7, 1) has its value, from (5, 2), and the
\* loop stands at (7, 2)
C23_Witness ==
    /\ hk.status = "filling"
    /\ hk.mask = 7
    /\ hk.i = 2
    /\ InTable(hk.dp, 7, 1)
    /\ InTable(hk.dp, 5, 2)
    /\ ~InTable(hk.dp, 7, 2)
    /\ hk.parent[<<7, 1>>] = 2

---------------------------------------------------------------------------
(* improve_tour_with_2opt, one sweep of the while loop at a time.  gr      *)
(* holds the arguments of the call (the tour given and max_iterations) and *)
(* the loop variables; distance_matrix and point_ids are its other two     *)
(* arguments.                                                              *)
MaxSweeps == 2

\* the caps a call is made with: small ones, and the default
SweepCaps(symmetric) ==
    (0..MaxSweeps) \cup (IF symmetric THEN {MAX_ITERATIONS} ELSE {})

Init2opt ==
    /\ \E n \in 0..MaxN : \E symmetric \in BOOLEAN :
          \E w \in [0..(NumWeights - 1) -> 0..MaxCost] :
              /\ distance_matrix = MatrixOf(n, w, symmetric)
              /\ point_ids = IdsOf(n)
    /\ bf = NotRun
    /\ hk = NotRun
    /\ gr = NotRun
    /\ bf_stats = NoStats
    /\ hk_stats = NoStats
    /\ gr_stats = NoStats
    /\ SessionAtStart

\* the tours a call is made with: the points in any order after the first
ToursOf(ids) ==
    IF Len(ids) = 0 THEN {<<>>}
    ELSE {<<ids[1]>> \o ToIds(p, ids) : p \in Orderings(1..(Len(ids) - 1))}

\* the matrix equals its transpose
IsSymmetric(D, n) == \A i \in 0..(n - 1) : \A j \in 0..(n - 1) : D[i][j] = D[j][i]

\* the while condition
two_opt_continues(st) == st.improved /\ st.iterations < st.max_iterations

\* the statements before the loop
TwoOptEnter ==
    /\ gr.status = "none"
    /\ \E tour \in ToursOf(point_ids) :
       \E max_iterations \in SweepCaps(IsSymmetric(distance_matrix, Len(point_ids))) :
          LET tour_indices == [k \in 1..Len(tour) |-> id_to_idx(point_ids, tour[k])]
          IN  gr' = [status |-> "sweeping", given |-> tour,
                     max_iterations |-> max_iterations,
                     current_tour   |-> tour_indices,
                     current_length |-> cycle_length(tour_indices, distance_matrix, 1),
                     swaps_made |-> 0, iterations |-> 0, improved |-> TRUE]
    /\ UNCHANGED <<distance_matrix, point_ids, bf, hk, bf_stats, hk_stats, gr_stats,
                   session_vars>>

\* one turn of the while loop
TwoOptSweep ==
    /\ gr.status = "sweeping"
    /\ two_opt_continues(gr)
    /\ \E swapped \in {two_opt_sweep(gr.current_tour, distance_matrix, 0, 2)} :
       \E st \in {two_opt_after(distance_matrix,
                      [current_tour |-> gr.current_tour,
                       current_length |-> gr.current_length,
                       swaps_made |-> gr.swaps_made, iterations |-> gr.iterations,
                       improved |-> gr.improved], swapped)} :
           gr' = [gr EXCEPT !.current_tour = st.current_tour,
                            !.current_length = st.current_length,
                            !.swaps_made = st.swaps_made,
                            !.iterations = st.iterations,
                            !.improved = st.improved]
    /\ UNCHANGED <<distance_matrix, point_ids, bf, hk, bf_stats, hk_stats, gr_stats,
                   session_vars>>

\* the loop is left and the tour returned as identifiers
TwoOptReturn ==
    /\ gr.status = "sweeping"
    /\ ~two_opt_continues(gr)
    /\ gr' = [status |-> "ok", given |-> gr.given,
              max_iterations |-> gr.max_iterations,
              tour   |-> ToIds(gr.current_tour, point_ids),
              length |-> gr.current_length,
              swaps_made |-> gr.swaps_made,
              iterations |-> gr.iterations,
              improved   |-> gr.improved]
    /\ UNCHANGED <<distance_matrix, point_ids, bf, hk, bf_stats, hk_stats, gr_stats,
                   session_vars>>

Next2opt == TwoOptEnter \/ TwoOptSweep \/ TwoOptReturn

Spec2opt == Init2opt /\ [][Next2opt]_vars

\* the calls whose costs are 0 or MaxCost
Init2optFair ==
    /\ Init2opt
    /\ \A i \in 0..(Len(point_ids) - 1) : \A j \in 0..(Len(point_ids) - 1) :
          distance_matrix[i][j] \in {0, MaxCost}

\* a call that has begun keeps running: nothing outside the loop holds it up
Spec2optFair ==
    Init2optFair /\ [][Next2opt]_vars /\ WF_vars(TwoOptSweep) /\ WF_vars(TwoOptReturn)

\* the stepwise run returns what improve_tour_with_2opt returns
StepwiseAgrees2opt ==
    gr.status = "ok" =>
        LET r == improve_tour_with_2opt(gr.given, distance_matrix, point_ids,
                                        gr.max_iterations)
        IN  /\ gr.tour = r.tour
            /\ gr.length = r.length
            /\ gr.swaps_made = r.swaps_made
            /\ gr.iterations = r.iterations

\* the returned tour as matrix indices
ReturnedIndices == [k \in 1..Len(gr.tour) |-> id_to_idx(point_ids, gr.tour[k])]

\* exchanging the edges after positions i and j of tour t does not strictly
\* lower the cost of the two edges
NoGain(t, i, j) ==
    LET n == Len(t)
        D == distance_matrix
    IN  ~(Plus(D[t[i + 1]][t[j + 1]], D[t[i + 2]][t[((j + 1) % n) + 1]])
            < Plus(D[t[i + 1]][t[i + 2]], D[t[j + 1]][t[((j + 1) % n) + 1]]))

\* C24: when improve_tour_with_2opt has stopped after a sweep that found no
\* improvement, the returned tour t is 2-opt locally optimal: for every pair
\* 0 <= i, i + 2 <= j <= n - 1 the exchanged edges cost no less than the
\* present ones.
C24_LocallyOptimal ==
    (gr.status = "ok" /\ ~gr.improved) =>
        \A i \in 0..(Len(gr.tour) - 1) : \A j \in (i + 2)..(Len(gr.tour) - 1) :
            NoGain(ReturnedIndices, i, j)

\* a call that swapped and then swept without improvement, below the cap
C24_Witness ==
    /\ gr.status = "ok"
    /\ ~gr.improved
    /\ Len(gr.tour) = 4
    /\ gr.swaps_made >= 1
    /\ gr.tour # gr.given
    /\ gr.iterations < gr.max_iterations

\* the counters of a call: sweeps up to the cap, swaps up to the sweeps
CountersWithinCap ==
    gr.status \in {"sweeping", "ok"} =>
        /\ gr.swaps_made <= gr.iterations
        /\ gr.iterations <= gr.max_iterations
        /\ (gr.status = "ok" /\ gr.max_iterations = MAX_ITERATIONS
                /\ IsSymmetric(distance_matrix, Len(point_ids)))
              => ~gr.improved

\* a sweep swaps at most once, and on a symmetric matrix a swap makes the
\* tour strictly shorter
SweepDecreases ==
    (gr.status = "sweeping" /\ gr'.status = "sweeping") =>
        /\ gr'.iterations = gr.iterations + 1
        /\ gr'.swaps_made \in {gr.swaps_made, gr.swaps_made + 1}
        /\ gr'.swaps_made = gr.swaps_made => gr'.current_tour = gr.current_tour
        /\ (gr'.swaps_made > gr.swaps_made
                /\ IsSymmetric(distance_matrix, Len(point_ids)))
              => gr'.current_length < gr.current_length

\* C25: improve_tour_with_2opt terminates: it makes at most max_iterations
\* sweeps and at most one swap per sweep, so swaps_made <= max_iterations;
\* on a symmetric matrix of whole-number costs every swap strictly shortens
\* the tour, so the loop ends by a sweep without improvement before the
\* default cap plays a part; and every call that began returns.
C25_Terminates ==
    /\ []CountersWithinCap
    /\ [][SweepDecreases]_vars
    /\ (gr.status = "sweeping") ~> (gr.status = "ok")

\* a call stopped by the cap while still improving
C25_Witness ==
    /\ gr.status = "ok"
    /\ gr.improved
    /\ gr.max_iterations = MaxSweeps
    /\ gr.iterations = gr.max_iterations
    /\ gr.swaps_made = gr.max_iterations
    /\ ~IsSymmetric(distance_matrix, Len(point_ids))

---------------------------------------------------------------------------
(* Repeated calls.  A solver is called on (distance_matrix, point_ids) and *)
(* its result kept in bf, hk or gr; it is then called again on the same    *)
(* arguments and what the second call returns is kept in response.         *)

\* the call of one of the three solvers
solver_call(op, D, ids) ==
    IF op = "bruteforce" THEN solve_tsp_bruteforce(D, ids)
    ELSE IF op = "heldkarp" THEN solve_tsp_heldkarp(D, ids)
    ELSE solve_tsp_greedy_with_2opt(D, ids, MAX_ITERATIONS)

\* the result of the first call of a solver
FirstOf(op) ==
    IF op = "bruteforce" THEN bf ELSE IF op = "heldkarp" THEN hk ELSE gr

Again(op) ==
    /\ FirstOf(op).status # "none"
    /\ response = NoResponse
    /\ \E r \in {solver_call(op, distance_matrix, point_ids)} :
          response' = [kind |-> "again", op |-> op, status |-> r.status,
                       tour |-> r.tour, length |-> r.length]
    /\ UNCHANGED <<solver_vars, network_cache, points_cache, points_file, pending,
                   written_by, next_request>>

\* no solver has been called yet
NoneCalled == bf = NotRun /\ hk = NotRun /\ gr = NotRun

NextRepeat ==
    \/ NoneCalled /\ RunBruteforce
    \/ NoneCalled /\ RunHeldKarp
    \/ NoneCalled /\ RunGreedy2opt
    \/ Again("bruteforce")
    \/ Again("heldkarp")
    \/ Again("heuristic")

SpecRepeat == Init /\ [][NextRepeat]_vars

---------------------------------------------------------------------------
(* The relative improvement of solve_tsp_greedy_with_2opt *)

\* the outcomes of float arithmetic that are values, not exceptions
FloatKinds == {"num", "nan", "+inf", "-inf"}

\* C29: on every finite symmetric non-negative matrix of n >= 1 points
\* solve_tsp_greedy_with_2opt returns: a tour of the n points, a length and
\* its telemetry, the relative improvement being a float value also when the
\* greedy length is 0 (no arithmetic exception ends the call).
C29_ZeroLengthReturns ==
    (gr.status # "none" /\ Len(point_ids) >= 1 /\ Finite /\ Symmetric) =>
        /\ gr.status = "ok"
        /\ Len(gr.tour) = Len(point_ids)
        /\ gr.length = gr.improved_length
        /\ gr.improvement_percent.kind \in FloatKinds
        /\ gr.two_opt_swaps >= 0
        /\ gr.distance_queries >= 0

\* three points on one node: every entry is 0 and so is the greedy length
C29_Witness ==
    /\ gr.status = "ok"
    /\ Len(point_ids) = 3
    /\ \A i \in 0..2 : \A j \in 0..2 : distance_matrix[i][j] = 0
    /\ gr.greedy_length = 0
    /\ gr.length = 0
    /\ gr.improvement_percent.kind = "nan"

---------------------------------------------------------------------------
(* Failed uploads *)

\* C30: a load_network or snap_points request that is answered with an
\* error (no bytes, an upload that cannot be parsed, missing columns, no
\* network loaded, a failure while snapping) leaves the network cache and the
\* points cache as they were: the caches are written by successful requests
\* only.
C30_FailedRequestWritesNothing ==
    [][(/\ response' # response
        /\ response'.kind = "http"
        /\ response'.op \in {"load", "snap"}
        /\ response'.status_code # 200)
           => /\ network_cache' = network_cache
              /\ points_cache' = points_cache]_vars

\* a snap request refused while the points of an earlier one are cached
C30_Witness ==
    /\ response.kind = "http"
    /\ response.op = "snap"
    /\ response.status_code # 200
    /\ has_key(network_cache, "graph")
    /\ has_key(points_cache, "points")
    /\ Len(points_cache.points) >= 1
    /\ written_by.points < response.request

=============================================================================
